---- MODULE Spec2Model ----
(***************************************************************************)
(* A model of the ETL expression-template library: the fast_matrix         *)
(* container and its element-wise expressions, the gevm temporary          *)
(* expression with its implementation selection, and the transformers.     *)
(*                                                                         *)
(* Element values are integers (the instantiation T = int); an operation   *)
(* is taken only when every value it stores stays inside T, which stands   *)
(* for the absence of overflow.                                            *)
(***************************************************************************)
EXTENDS Integers, Sequences, FiniteSets, TLC

\* ------------------------------------------------------------------ bounds

\* The largest element value: the values of T are 0..MaxValue.
MaxValue == 1

\* How many elements more than the destination a source may have.
MaxExtra == 1

\* The element values the inputs are drawn from.
T == 0..MaxValue

\* The instantiations fast_matrix<T, Rows, Columns>: the two-element matrices.
Shapes == {<<1, 2>>, <<2, 1>>}

\* The sizes of the sources a fast_matrix of n elements is written from.
SourceSizes(n) == 0..(n + MaxExtra)

VARIABLES
    Rows,       \* template parameter Rows of the destination
    Columns,    \* template parameter Columns of the destination
    a,          \* _data of the destination fast_matrix
    b,          \* _data of a second fast_matrix of the same type
    last,       \* the last operation on a: what it read and how it ended
    build,      \* the compile-time switches of the build
    ctx,        \* local_context().gemm_selector
    ev,         \* the evaluation in progress: of a temporary expression, of a
                \* parallel assignment, of a backend call
    view,       \* the matrix a transformer or a pooling is built over
    access      \* the last result read through the transformer or computed

mvars == <<Rows, Columns, a, b, last>>

gvars == <<build, ctx, ev>>

tvars == <<view, access>>

vars == <<mvars, gvars, tvars>>

\* The build of a program that evaluates no temporary expression, its
\* selector and its evaluation: the fast_matrix operations leave them alone.
NoBuild == [cblas_enabled |-> FALSE, cublas_enabled |-> FALSE, vec_enabled |-> FALSE]

NoContext == [forced |-> FALSE, impl |-> "STD"]

\* No transformer: an empty matrix and no access.
NoSub == [rows |-> 0, columns |-> 0, data |-> <<>>]

NoAccess == [op |-> "none", i |-> 0, j |-> 0, value |-> 0, failed |-> FALSE]

Plain == [temporary |-> FALSE, evaluated |-> FALSE]

NoEvaluation ==
    [pc |-> "idle", kind |-> "gevm", flipped |-> FALSE,
     all_vectorizable |-> FALSE, is_complex_single |-> FALSE,
     da |-> <<>>, db |-> <<>>, dc |-> <<>>, s1 |-> 0, s2 |-> 0, p1 |-> 0, p2 |-> 0,
     reads |-> 0, visited |-> 0, step |-> 0, a_op |-> Plain, b_op |-> Plain,
     impl |-> "none", reported |-> FALSE, evaluated |-> FALSE, runs |-> 0,
     result |-> "empty", inputs |-> TRUE, observed |-> <<>>, trace |-> <<>>]

\* ---------------------------------------------------------------- helpers

Abs(x) == IF x < 0 THEN -x ELSE x

\* C++ integer division and remainder truncate toward zero.
CDiv(x, y) ==
    IF y = 0 THEN 0
    ELSE IF (x < 0) = (y < 0) THEN Abs(x) \div Abs(y)
    ELSE -(Abs(x) \div Abs(y))

CMod(x, y) == IF y = 0 THEN 0 ELSE x - y * CDiv(x, y)

Filled(n, v) == [i \in 1..n |-> v]

\* ------------------------------------------------- operation tags (fast_op)

BinaryOps == {"plus", "minus", "mul", "div", "mod"}

UnaryOps == {"abs", "sign", "minus", "plus", "identity"}

plus_binary_op_bug(lhs, rhs) == lhs - rhs

plus_binary_op(lhs, rhs) == lhs + rhs

minus_binary_op(lhs, rhs) == lhs - rhs

mul_binary_op(lhs, rhs) == lhs * rhs

div_binary_op(lhs, rhs) == CDiv(lhs, rhs)

mod_binary_op(lhs, rhs) == CMod(lhs, rhs)

binary_apply(op, lhs, rhs) ==
    CASE op = "plus" -> plus_binary_op(lhs, rhs)
      [] op = "minus" -> minus_binary_op(lhs, rhs)
      [] op = "mul" -> mul_binary_op(lhs, rhs)
      [] op = "div" -> div_binary_op(lhs, rhs)
      [] op = "mod" -> mod_binary_op(lhs, rhs)

unary_apply(op, x) ==
    CASE op = "abs" -> Abs(x)
      [] op = "sign" -> (IF x > 0 THEN 1 ELSE IF x < 0 THEN -1 ELSE 0)
      [] op = "minus" -> -x
      [] op = "plus" -> x
      [] op = "identity" -> x

\* -------------------------------------------------------------- expressions
\* An operand of an expression: the destination itself (held by reference, so
\* it is read live), another container (its _data), or a scalar.

SelfLeaf == [k |-> "self", d |-> <<>>, v |-> 0]

MatLeaf(d) == [k |-> "mat", d |-> d, v |-> 0]

ScalarLeaf(v) == [k |-> "scalar", d |-> <<>>, v |-> v]

NoLeaf == [k |-> "none", d |-> <<>>, v |-> 0]

\* etl_assert(i < size()) of fast_matrix::operator[]; a scalar has no bound.
leaf_in_bounds(leaf, i, n) ==
    CASE leaf.k = "self" -> i < n
      [] leaf.k = "mat" -> i < Len(leaf.d)
      [] OTHER -> TRUE

fast_matrix_at_bug(data, i) == data[Len(data) - i]

\* fast_matrix::operator[](i): _data[i]
fast_matrix_at(data, i) == data[i + 1]

\* scalar::operator[](i): value
scalar_at(v, i) == v

leaf_at(leaf, data, i) ==
    CASE leaf.k = "self" -> fast_matrix_at(data, i)
      [] leaf.k = "mat" -> fast_matrix_at(leaf.d, i)
      [] OTHER -> scalar_at(leaf.v, i)

\* The number of elements of the source an expression stands for.
leaf_size(leaf, n) ==
    CASE leaf.k = "self" -> n
      [] leaf.k = "mat" -> Len(leaf.d)
      [] OTHER -> n

\* An expression: kind "binary" (op, lhs, rhs), "unary" (op, lhs) or "leaf" (lhs).
BinaryExpr(op, lhs, rhs) == [kind |-> "binary", op |-> op, lhs |-> lhs, rhs |-> rhs]

UnaryExpr(op, sub) == [kind |-> "unary", op |-> op, lhs |-> sub, rhs |-> NoLeaf]

LeafExpr(sub) == [kind |-> "leaf", op |-> "identity", lhs |-> sub, rhs |-> NoLeaf]

expr_in_bounds(e, i, n) == leaf_in_bounds(e.lhs, i, n) /\ leaf_in_bounds(e.rhs, i, n)

\* binary_expr::operator[](i), unary_expr::operator[](i): the tag applied to
\* the operands' elements i.
expr_at(e, data, i) ==
    CASE e.kind = "binary" -> binary_apply(e.op, leaf_at(e.lhs, data, i), leaf_at(e.rhs, data, i))
      [] e.kind = "unary" -> unary_apply(e.op, leaf_at(e.lhs, data, i))
      [] OTHER -> leaf_at(e.lhs, data, i)

\* The size of the source: the smaller of its operands' sizes.
expr_size(e, n) ==
    IF e.kind = "binary"
    THEN (IF leaf_size(e.lhs, n) < leaf_size(e.rhs, n) THEN leaf_size(e.lhs, n) ELSE leaf_size(e.rhs, n))
    ELSE leaf_size(e.lhs, n)

\* ------------------------------------------------------------- fast_matrix

\* fast_matrix::size(): Rows * Columns
size(rows, columns) == rows * columns

\* fast_matrix::rows, fast_matrix::columns: the extent of dimension k
dim(rows, columns, k) == IF k = 0 THEN rows ELSE columns

\* How a write of the whole matrix ended: the _data it left, the number of
\* elements written, and whether an assertion stopped it.
Outcome(data, written, failed) == [data |-> data, written |-> written, failed |-> failed]

RECURSIVE assign_loop(_, _, _, _)
\* for(std::size_t i = 0; i < size(); ++i){ _data[i] = e[i]; }
\* The operands' operator[] assert their own bounds.
assign_loop(data, e, i, n) ==
    IF i >= n THEN Outcome(data, i, FALSE)
    ELSE IF ~expr_in_bounds(e, i, n) THEN Outcome(data, i, TRUE)
    ELSE assign_loop([data EXCEPT ![i + 1] = expr_at(e, data, i)], e, i + 1, n)

RECURSIVE compound_loop(_, _, _, _, _)
\* for(size_t i = 0; i < size(); ++i){ _data[i] += rhs[i]; }   (or -=, *=, /=)
compound_loop(data, op, e, i, n) ==
    IF i >= n THEN Outcome(data, i, FALSE)
    ELSE IF ~expr_in_bounds(e, i, n) THEN Outcome(data, i, TRUE)
    ELSE compound_loop(
            [data EXCEPT ![i + 1] = binary_apply(op, fast_matrix_at(data, i), expr_at(e, data, i))],
            op, e, i + 1, n)

\* fast_matrix(const T& value), operator=(const T& value): std::fill
fill(data, value) == Outcome([i \in 1..Len(data) |-> value], Len(data), FALSE)

construct_list_bug(data, l, n) == Outcome(l, Len(l), FALSE)

\* fast_matrix(std::initializer_list<T> l): the assertion, then std::copy
construct_list(data, l, n) ==
    IF Len(l) # n THEN Outcome(data, 0, TRUE)
    ELSE assign_loop(data, LeafExpr(MatLeaf(l)), 0, n)

\* operator=(const fast_matrix& rhs): no assertion, the type fixes the size
assign_copy(data, rhs, n) == assign_loop(data, LeafExpr(MatLeaf(rhs)), 0, n)

\* operator=(const Container& vec): the assertion, then the loop
assign_container(data, vec, n) ==
    IF Len(vec) # n THEN Outcome(data, 0, TRUE)
    ELSE assign_loop(data, LeafExpr(MatLeaf(vec)), 0, n)

\* fast_matrix(binary_expr&&), operator=(binary_expr&&),
\* fast_matrix(unary_expr&&), operator=(unary_expr&&): the loop, unchecked
assign_expr(data, e, n) == assign_loop(data, e, 0, n)

\* operator*=(const T&), operator/=(const T&)
scalar_compound(data, op, value, n) == compound_loop(data, op, LeafExpr(ScalarLeaf(value)), 0, n)

\* operator+=(RE&& rhs), operator-=(RE&& rhs): the loop, unchecked
expr_compound(data, op, e, n) == compound_loop(data, op, e, 0, n)

\* ------------------------------------------------------ inputs of the model

Vectors(n) == [1..n -> T]

\* Sources whose size differs from the destination's (their elements are ones).
MismatchedVectors(n) == {Filled(len, 1) : len \in SourceSizes(n) \ {n}}

\* Operands of an expression: a itself, b, a scalar.
Leaves == {SelfLeaf, MatLeaf(b)} \cup {ScalarLeaf(v) : v \in T}

ReadsSelf(e) == e.lhs.k = "self" \/ e.rhs.k = "self"

\* Expressions over sources of another size than the destination's.
MismatchedBinaryExprs ==
    {BinaryExpr("mul", MatLeaf(v), MatLeaf(v)) : v \in MismatchedVectors(size(Rows, Columns))}

MismatchedUnaryExprs ==
    {UnaryExpr("abs", MatLeaf(v)) : v \in MismatchedVectors(size(Rows, Columns))}

\* Expressions a is assigned from: those that read a (c = a + b with a
\* distinct destination c is the construction), and the mismatched ones.
AssignBinaryExprs ==
    {e \in {BinaryExpr(op, l, r) : op \in BinaryOps, l \in Leaves, r \in Leaves} : ReadsSelf(e)}
    \cup MismatchedBinaryExprs

\* Operands of an expression a matrix is constructed from: the matrix that a
\* was until now (another object than the one constructed), b, a scalar.
ConstructLeaves == {MatLeaf(a), MatLeaf(b)} \cup {ScalarLeaf(v) : v \in T}

\* Expressions a is constructed from: they cannot read the new matrix.
ConstructBinaryExprs ==
    {e \in {BinaryExpr(op, l, r) : op \in BinaryOps, l \in ConstructLeaves,
                                   r \in ConstructLeaves} :
        e.lhs.k = "mat" \/ e.rhs.k = "mat"}
    \cup MismatchedBinaryExprs

AssignUnaryExprs ==
    {UnaryExpr(op, l) : op \in UnaryOps, l \in {SelfLeaf, MatLeaf(b)}} \cup MismatchedUnaryExprs

ConstructUnaryExprs ==
    {UnaryExpr(op, l) : op \in UnaryOps, l \in {MatLeaf(a), MatLeaf(b)}}
    \cup MismatchedUnaryExprs

\* The elements an expression is read at by a loop over n elements.
ReadIndexes(e, n) == {i \in 0..(n - 1) : i < expr_size(e, n)}

\* Integer division by zero is excluded, and so is overflow.
Defined(e, data, n) ==
    (e.kind = "binary" /\ e.op \in {"div", "mod"})
        => \A i \in ReadIndexes(e, n) : leaf_at(e.rhs, data, i) # 0

InRange(out) == \A i \in 1..Len(out.data) : out.data[i] \in T

NoOp == [kind |-> "init", op |-> "none", e |-> LeafExpr(NoLeaf), pre |-> <<>>,
         srcLen |-> 0, written |-> 0, failed |-> FALSE]

Done(kind, op, e, out) ==
    /\ InRange(out)
    /\ a' = out.data
    /\ last' = [kind |-> kind, op |-> op, e |-> e, pre |-> a,
                srcLen |-> expr_size(e, size(Rows, Columns)),
                written |-> out.written, failed |-> out.failed]
    /\ UNCHANGED <<Rows, Columns, b, gvars, tvars>>

\* A failed assertion ends the program.
Running == ~last.failed

\* ------------------------------------------------------------------ actions

InitMatrix ==
    /\ \E s \in Shapes : Rows = s[1] /\ Columns = s[2]
    /\ a \in Vectors(size(Rows, Columns))
    /\ b \in Vectors(size(Rows, Columns))
    /\ last = NoOp
    /\ build = NoBuild
    /\ ctx = NoContext
    /\ ev = NoEvaluation
    /\ view = NoSub
    /\ access = NoAccess

ConstructFill ==
    /\ Running
    /\ \E v \in T : Done("construct_fill", "none", LeafExpr(ScalarLeaf(v)), fill(a, v))

ConstructList ==
    /\ Running
    /\ \E l \in Vectors(size(Rows, Columns)) \cup MismatchedVectors(size(Rows, Columns)) :
          Done("construct_list", "none", LeafExpr(MatLeaf(l)),
               construct_list(a, l, size(Rows, Columns)))

AssignCopy ==
    /\ Running
    /\ Done("assign_copy", "none", LeafExpr(MatLeaf(b)), assign_copy(a, b, size(Rows, Columns)))

AssignContainer ==
    /\ Running
    /\ \E vec \in {b} \cup MismatchedVectors(size(Rows, Columns)) :
          Done("assign_container", "none", LeafExpr(MatLeaf(vec)),
               assign_container(a, vec, size(Rows, Columns)))

ConstructBinary ==
    /\ Running
    /\ \E e \in ConstructBinaryExprs :
          /\ Defined(e, a, size(Rows, Columns))
          /\ Done("construct_binary", "none", e, assign_expr(a, e, size(Rows, Columns)))

AssignBinary ==
    /\ Running
    /\ \E e \in AssignBinaryExprs :
          /\ Defined(e, a, size(Rows, Columns))
          /\ Done("assign_binary", "none", e, assign_expr(a, e, size(Rows, Columns)))

ConstructUnary ==
    /\ Running
    /\ \E e \in ConstructUnaryExprs :
          Done("construct_unary", "none", e, assign_expr(a, e, size(Rows, Columns)))

AssignUnary ==
    /\ Running
    /\ \E e \in AssignUnaryExprs :
          Done("assign_unary", "none", e, assign_expr(a, e, size(Rows, Columns)))

AssignFill ==
    /\ Running
    /\ \E v \in T : Done("assign_fill", "none", LeafExpr(ScalarLeaf(v)), fill(a, v))

MulScalar ==
    /\ Running
    /\ \E v \in T :
          Done("mul_scalar", "mul", LeafExpr(ScalarLeaf(v)),
               scalar_compound(a, "mul", v, size(Rows, Columns)))

DivScalar ==
    /\ Running
    /\ \E v \in T \ {0} :
          Done("div_scalar", "div", LeafExpr(ScalarLeaf(v)),
               scalar_compound(a, "div", v, size(Rows, Columns)))

CompoundSources ==
    {LeafExpr(l) : l \in {SelfLeaf, MatLeaf(b)}}
    \cup {LeafExpr(MatLeaf(v)) : v \in MismatchedVectors(size(Rows, Columns))}
    \cup {BinaryExpr("plus", MatLeaf(b), ScalarLeaf(v)) : v \in T}

AddAssign ==
    /\ Running
    /\ \E e \in CompoundSources :
          Done("add_assign", "plus", e, expr_compound(a, "plus", e, size(Rows, Columns)))

SubAssign ==
    /\ Running
    /\ \E e \in CompoundSources :
          Done("sub_assign", "minus", e, expr_compound(a, "minus", e, size(Rows, Columns)))

NextMatrix ==
    \/ ConstructFill
    \/ ConstructList
    \/ AssignCopy
    \/ AssignContainer
    \/ ConstructBinary
    \/ AssignBinary
    \/ ConstructUnary
    \/ AssignUnary
    \/ AssignFill
    \/ MulScalar
    \/ DivScalar
    \/ AddAssign
    \/ SubAssign

Spec == InitMatrix /\ [][NextMatrix]_vars

\* ------------------------------------------------- claims on fast_matrix

\* The value an operand of the last expression had at index i before the
\* operation started.
OperandBefore(leaf, i) ==
    CASE leaf.k = "self" -> last.pre[i + 1]
      [] leaf.k = "mat" -> leaf.d[i + 1]
      [] OTHER -> leaf.v

\* The arithmetic an operation tag stands for.
Arithmetic(op, x, y) ==
    CASE op = "plus" -> x + y
      [] op = "minus" -> x - y
      [] op = "mul" -> x * y
      [] op = "div" -> CDiv(x, y)
      [] op = "mod" -> CMod(x, y)

Conforming == last.srcLen = size(Rows, Columns)

\* C1: a destination constructed or assigned from (x op y), x and y of the
\* destination's shape, holds op(x[i], y[i]) at every linear index i, for
\* every tag op among plus, minus, mul, div, mod.
C1_ElementwiseCorrect ==
    (last.kind \in {"construct_binary", "assign_binary"} /\ Conforming) =>
        /\ ~last.failed
        /\ \A i \in 0..(size(Rows, Columns) - 1) :
              a[i + 1] = Arithmetic(last.e.op, OperandBefore(last.e.lhs, i),
                                    OperandBefore(last.e.rhs, i))

\* A sum of two containers with a non-zero element has been constructed.
C1_Witness ==
    /\ last.kind = "construct_binary"
    /\ Conforming
    /\ last.e.op = "plus"
    /\ last.e.lhs.k = "mat"
    /\ last.e.rhs.k = "mat"
    /\ last.e.lhs.d # last.e.rhs.d
    /\ \A i \in 1..Len(a) : a[i] # 0

\* The last expression with the destination replaced by a copy of what the
\* destination held before: the operands of an evaluation into another matrix.
Detached(e) ==
    [e EXCEPT !.lhs = IF e.lhs.k = "self" THEN MatLeaf(last.pre) ELSE e.lhs,
              !.rhs = IF e.rhs.k = "self" THEN MatLeaf(last.pre) ELSE e.rhs]

\* The expression evaluated into a distinct destination, then copied into a.
ViaTemporary ==
    assign_container(last.pre,
                     assign_expr(Filled(size(Rows, Columns), 0), Detached(last.e),
                                 size(Rows, Columns)).data,
                     size(Rows, Columns)).data

\* C2: assigning an expression that reads its own destination (a = a + b,
\* a = s + a, a = a + s, a = a + a) leaves a as evaluating the expression into
\* a distinct destination and copying that into a does.
C2_AliasingSafe ==
    (last.kind = "assign_binary" /\ ReadsSelf(last.e) /\ Conforming) =>
        /\ ~last.failed
        /\ a = ViaTemporary

\* a = a + b has been assigned and changed a.
C2_Witness ==
    /\ last.kind = "assign_binary"
    /\ last.e.op = "plus"
    /\ last.e.lhs.k = "self"
    /\ last.e.rhs.k = "mat"
    /\ a # last.pre
    /\ a[1] # a[2]

\* C8: size() is the product of the extents, the buffer holds size()
\* elements and the extents are those of the instantiation, after any
\* sequence of operations.
C8_ShapeInvariant ==
    /\ size(Rows, Columns) = dim(Rows, Columns, 0) * dim(Rows, Columns, 1)
    /\ Len(a) = size(Rows, Columns)
    /\ Len(b) = size(Rows, Columns)
    /\ <<dim(Rows, Columns, 0), dim(Rows, Columns, 1)>> \in Shapes

\* A compound assignment has run on a matrix with more columns than rows.
C8_Witness ==
    /\ last.kind \in {"add_assign", "sub_assign", "mul_scalar", "div_scalar"}
    /\ ~last.failed
    /\ dim(Rows, Columns, 0) < dim(Rows, Columns, 1)
    /\ a # last.pre

WholeWrites ==
    {"construct_list", "assign_container", "construct_binary", "assign_binary",
     "construct_unary", "assign_unary", "add_assign", "sub_assign"}

\* C9: every write of the whole matrix from a source of another size fails an
\* assertion before any element of the destination is written.
C9_SizeChecked ==
    (last.kind \in WholeWrites /\ ~Conforming) =>
        /\ last.failed
        /\ last.written = 0
        /\ a = last.pre

\* ----------------------------------------------- temporary expressions

\* How many times one evaluated expression reads the same temporary.
MaxReads == 2

\* The enumerators of gemm_impl that the selection and the dispatch name.
gemm_impl == {"STD", "VEC", "BLAS", "CUBLAS"}

\* The builds: which external libraries and vector mode are compiled in.
Builds == [cblas_enabled : BOOLEAN, cublas_enabled : BOOLEAN, vec_enabled : BOOLEAN]

\* gevm_expr::check: the assertion on the exterior dimensions
gevm_check(e) == e.da[1] = e.db[1] /\ e.db[2] = e.dc[1]

\* dyn_conv_4d_backward_expr::check: the five assertions
conv4_check(e) ==
    /\ e.dc[1] = e.da[1]
    /\ e.dc[2] = e.db[2]
    /\ e.da[2] = e.db[1]
    /\ e.dc[3] = e.s1 * (e.da[3] - 1) + e.db[3] - 2 * e.p1
    /\ e.dc[4] = e.s2 * (e.da[4] - 1) + e.db[4] - 2 * e.p2

check(e) == IF e.kind = "gevm" THEN gevm_check(e) ELSE conv4_check(e)

select_default_gevm_impl_library_first(bld, e, n1, n2) ==
    LET vec_possible == e.all_vectorizable /\ bld.vec_enabled
    IN  IF bld.cblas_enabled
        THEN IF vec_possible /\ n1 * n2 <= 200 * 200 THEN "VEC" ELSE "BLAS"
        ELSE IF bld.cublas_enabled /\ e.is_complex_single /\ n1 * n2 > 1000 * 1000
             THEN "CUBLAS"
        ELSE IF vec_possible THEN "VEC"
        ELSE "STD"

select_default_gevm_impl_strict(bld, e, n1, n2) ==
    LET vec_possible == e.all_vectorizable /\ bld.vec_enabled
    IN  IF bld.cblas_enabled
        THEN IF vec_possible /\ n1 * n2 < 200 * 200 THEN "VEC" ELSE "BLAS"
        ELSE IF vec_possible THEN "VEC"
        ELSE IF bld.cublas_enabled /\ e.is_complex_single /\ n1 * n2 > 1000 * 1000
             THEN "CUBLAS"
        ELSE "STD"

select_default_gevm_impl_any_operand(bld, e, n1, n2) ==
    LET vec_possible == bld.vec_enabled
    IN  IF bld.cblas_enabled
        THEN IF vec_possible /\ n1 * n2 <= 200 * 200 THEN "VEC" ELSE "BLAS"
        ELSE IF vec_possible THEN "VEC"
        ELSE IF bld.cublas_enabled /\ e.is_complex_single /\ n1 * n2 > 1000 * 1000
             THEN "CUBLAS"
        ELSE "STD"

\* select_default_gevm_impl<C>(n1, n2) of the expression e in the build bld
select_default_gevm_impl(bld, e, n1, n2) ==
    LET vec_possible == e.all_vectorizable /\ bld.vec_enabled
    IN  IF bld.cblas_enabled
        THEN IF vec_possible /\ n1 * n2 <= 200 * 200 THEN "VEC" ELSE "BLAS"
        ELSE IF vec_possible THEN "VEC"
        ELSE IF bld.cublas_enabled /\ e.is_complex_single /\ n1 * n2 > 1000 * 1000
             THEN "CUBLAS"
        ELSE "STD"

\* What select_gevm_impl returns, and whether it wrote to std::cerr.
Selection(impl, reported) == [impl |-> impl, reported |-> reported]

select_gevm_impl_bug(sel, bld, e, n1, n2) ==
    IF sel.forced THEN Selection(sel.impl, FALSE)
    ELSE Selection(select_default_gevm_impl(bld, e, n1, n2), FALSE)

\* select_gevm_impl<C>(n1, n2) under the selector sel
select_gevm_impl(sel, bld, e, n1, n2) ==
    IF sel.forced
    THEN CASE sel.impl = "CUBLAS" ->
                IF ~bld.cublas_enabled
                THEN Selection(select_default_gevm_impl(bld, e, n1, n2), TRUE)
                ELSE Selection(sel.impl, FALSE)
           [] sel.impl = "BLAS" ->
                IF ~bld.cblas_enabled
                THEN Selection(select_default_gevm_impl(bld, e, n1, n2), TRUE)
                ELSE Selection(sel.impl, FALSE)
           [] sel.impl = "VEC" ->
                IF ~bld.vec_enabled \/ ~e.all_vectorizable
                THEN Selection(select_default_gevm_impl(bld, e, n1, n2), TRUE)
                ELSE Selection(sel.impl, FALSE)
           [] OTHER -> Selection(sel.impl, FALSE)
    ELSE Selection(select_default_gevm_impl(bld, e, n1, n2), FALSE)

\* Whether the kernel the dispatch calls exists in the build: the BLAS
\* kernels are stubs that end the program when BLAS is not compiled in.
kernel_compiled(bld, impl) ==
    CASE impl = "BLAS" -> bld.cblas_enabled
      [] impl = "CUBLAS" -> bld.cublas_enabled
      [] OTHER -> TRUE

assign_to_steps_bug(kind) ==
    IF kind = "gevm"
    THEN <<"check", "pre_assign_rhs_a", "select", "kernel", "pre_assign_rhs_b">>
    ELSE <<"check", "pre_assign_rhs_a", "kernel", "pre_assign_rhs_b">>

\* The statements of assign_to, in program order.
assign_to_steps(kind) ==
    IF kind = "gevm"
    THEN <<"check", "pre_assign_rhs_a", "pre_assign_rhs_b", "select", "kernel">>
    ELSE <<"check", "pre_assign_rhs_a", "pre_assign_rhs_b", "kernel">>

\* An operand is ready to be read: a container, or an evaluated temporary.
Materialized(op) == ~op.temporary \/ op.evaluated

\* standard_evaluator::pre_assign_rhs on an operand
pre_assign_rhs(op) == IF op.temporary THEN [op EXCEPT !.evaluated = TRUE] ELSE op

needs_evaluation_bug(e) == TRUE

\* The test of a temporary expression's evaluate(): not evaluated yet.
needs_evaluation(e) == ~e.evaluated

\* ---------------------------------------- inputs of the temporary expressions

\* The dimensions (n1, n2) of the matrix operand of a gevm: both sides of the
\* two thresholds of the selection.
GevmSizes == {<<200, 200>>, <<200, 201>>, <<1000, 1000>>, <<1000, 1001>>}

\* c = a * b with a a vector and b a matrix: conforming operands, and a
\* vector or a destination of another length.
GevmShapes ==
    {[da |-> <<n[1]>>, db |-> n, dc |-> <<n[2]>>] : n \in GevmSizes}
        \cup {[da |-> <<201>>, db |-> <<200, 200>>, dc |-> <<200>>],
              [da |-> <<200>>, db |-> <<200, 200>>, dc |-> <<201>>]}

\* conv_4d_backward(a, b, 1, 1, 0, 0) into a conforming destination and into
\* one of another shape.
Conv4Shapes ==
    {[da |-> <<1, 1, 2, 2>>, db |-> <<1, 1, 2, 2>>, dc |-> <<1, 1, 3, 3>>],
     [da |-> <<1, 1, 2, 2>>, db |-> <<1, 1, 2, 2>>, dc |-> <<1, 1, 2, 2>>]}

\* An operand: a container, or a temporary expression not evaluated yet.
Operands == {Plain, [temporary |-> TRUE, evaluated |-> FALSE]}

GevmExprs ==
    {[NoEvaluation EXCEPT !.kind = "gevm", !.da = sh.da, !.db = sh.db, !.dc = sh.dc,
                          !.all_vectorizable = v, !.is_complex_single = c,
                          !.a_op = x, !.b_op = y] :
        sh \in GevmShapes, v \in BOOLEAN, c \in BOOLEAN, x \in Operands, y \in Operands}

Conv4Exprs ==
    {[NoEvaluation EXCEPT !.kind = "conv4", !.da = sh.da, !.db = sh.db, !.dc = sh.dc,
                          !.s1 = 1, !.s2 = 1, !.flipped = f,
                          !.a_op = x, !.b_op = y] :
        sh \in Conv4Shapes, f \in BOOLEAN, x \in Operands, y \in Operands}

\* ------------------------------------- actions of the temporary expressions

InitGevm ==
    /\ build \in Builds
    /\ ctx = NoContext
    /\ ev = NoEvaluation
    /\ Rows = 1
    /\ Columns = 1
    /\ a = <<0>>
    /\ b = <<0>>
    /\ last = NoOp
    /\ view = NoSub
    /\ access = NoAccess

\* No statement is being evaluated, and no assertion has ended the program.
Between == ev.pc = "idle"

\* Entering a scope that forces an implementation.
Force ==
    /\ Between
    /\ \E i \in gemm_impl : ctx' = [forced |-> TRUE, impl |-> i]
    /\ UNCHANGED <<build, ev, mvars, tvars>>

\* Leaving the scope.
Unforce ==
    /\ Between
    /\ ctx.forced
    /\ ctx' = NoContext
    /\ UNCHANGED <<build, ev, mvars, tvars>>

\* c = a * b, c = conv_4d_backward(a, b, ...): assign_to(c) is entered.
BeginAssign ==
    /\ Between
    /\ \E e \in GevmExprs \cup Conv4Exprs :
          ev' = [e EXCEPT !.pc = "assign_to", !.step = 1]
    /\ UNCHANGED <<build, ctx, mvars, tvars>>

\* d = m + ... + m with m a temporary expression read n times: the evaluator
\* starts visiting the operands. The temporary allocates its own result.
BeginEvaluate ==
    /\ Between
    /\ \E e \in GevmExprs \cup Conv4Exprs, n \in 1..MaxReads :
          /\ e.dc = IF e.kind = "gevm" THEN <<e.db[2]>>
                    ELSE <<e.da[1], e.db[2],
                           e.s1 * (e.da[3] - 1) + e.db[3] - 2 * e.p1,
                           e.s2 * (e.da[4] - 1) + e.db[4] - 2 * e.p2>>
          /\ ev' = [e EXCEPT !.pc = "visit", !.reads = n]
    /\ UNCHANGED <<build, ctx, mvars, tvars>>

AtStep(name) == ev.pc = "assign_to" /\ assign_to_steps(ev.kind)[ev.step] = name

\* assign_to has returned: to the assignment, or to evaluate(), which marks
\* the temporary as evaluated and lets the evaluator go on.
Returned(e) ==
    IF e.reads = 0 THEN [e EXCEPT !.pc = "done", !.step = 0]
    ELSE [e EXCEPT !.pc = "visit", !.step = 0, !.evaluated = TRUE, !.visited = @ + 1]

\* The statement of assign_to at e.step has run.
Stepped(e) ==
    IF e.step < Len(assign_to_steps(e.kind)) THEN [e EXCEPT !.step = @ + 1]
    ELSE Returned(e)

Logged(e, name) == [e EXCEPT !.trace = Append(@, name)]

\* check(a, b, c): a failed assertion ends the program.
Check ==
    /\ AtStep("check")
    /\ ev' = IF check(ev) THEN Stepped(Logged(ev, "check"))
             ELSE [Logged(ev, "check") EXCEPT !.pc = "failed"]
    /\ UNCHANGED <<build, ctx, mvars, tvars>>

\* standard_evaluator::pre_assign_rhs(a)
PreAssignRhsA ==
    /\ AtStep("pre_assign_rhs_a")
    /\ ev' = Stepped(Logged([ev EXCEPT !.a_op = pre_assign_rhs(@)], "pre_assign_rhs_a"))
    /\ UNCHANGED <<build, ctx, mvars, tvars>>

\* standard_evaluator::pre_assign_rhs(b)
PreAssignRhsB ==
    /\ AtStep("pre_assign_rhs_b")
    /\ ev' = Stepped(Logged([ev EXCEPT !.b_op = pre_assign_rhs(@)], "pre_assign_rhs_b"))
    /\ UNCHANGED <<build, ctx, mvars, tvars>>

\* auto impl = select_gevm_impl<C>(etl::dim<0>(b), etl::dim<1>(b))
Select ==
    /\ AtStep("select")
    /\ LET sel == select_gevm_impl(ctx, build, ev, ev.db[1], ev.db[2])
       IN  ev' = Stepped(Logged([ev EXCEPT !.impl = sel.impl, !.reported = sel.reported],
                                "select"))
    /\ UNCHANGED <<build, ctx, mvars, tvars>>

\* The kernel the dispatch of assign_to names.
dispatch(e) ==
    IF e.kind = "gevm" THEN e.impl
    ELSE IF e.flipped THEN "dyn_conv4_backward_flipped_impl"
    ELSE "dyn_conv4_backward_impl"

\* The dispatch: the kernel is entered and starts writing the result, or
\* cpp_unreachable ends the program.
KernelStart ==
    /\ AtStep("kernel")
    /\ ev.result # "partial"
    /\ ev' = IF (ev.kind = "gevm" /\ ev.impl \notin gemm_impl)
                \/ ~kernel_compiled(build, dispatch(ev))
             THEN [Logged(ev, "unreachable") EXCEPT !.pc = "failed"]
             ELSE [Logged(ev, "kernel") EXCEPT !.impl = dispatch(ev), !.runs = @ + 1,
                                               !.result = "partial",
                                               !.inputs = Materialized(ev.a_op)
                                                            /\ Materialized(ev.b_op)]
    /\ UNCHANGED <<build, ctx, mvars, tvars>>

\* The kernel has written the whole result and returns.
KernelEnd ==
    /\ AtStep("kernel")
    /\ ev.result = "partial"
    /\ ev' = Stepped([ev EXCEPT !.result = "full"])
    /\ UNCHANGED <<build, ctx, mvars, tvars>>

\* The evaluator visits one reference to the temporary: evaluate() enters
\* assign_to on the temporary's own result unless it is evaluated already.
Visit ==
    /\ ev.pc = "visit"
    /\ ev.visited < ev.reads
    /\ ev' = IF needs_evaluation(ev) THEN [ev EXCEPT !.pc = "assign_to", !.step = 1]
             ELSE [ev EXCEPT !.visited = @ + 1]
    /\ UNCHANGED <<build, ctx, mvars, tvars>>

\* The assignment loop reads the temporary through one of its references.
Read ==
    /\ ev.pc = "visit"
    /\ ev.visited = ev.reads
    /\ Len(ev.observed) < ev.reads
    /\ ev' = [ev EXCEPT !.observed = Append(@, [result |-> ev.result, run |-> ev.runs])]
    /\ UNCHANGED <<build, ctx, mvars, tvars>>

\* The statement ends.
Finish ==
    /\ ev.pc = "visit"
    /\ ev.visited = ev.reads
    /\ Len(ev.observed) = ev.reads
    /\ ev' = [ev EXCEPT !.pc = "done"]
    /\ UNCHANGED <<build, ctx, mvars, tvars>>

\* The end of the full expression: the expression object is destroyed.
Destroy ==
    /\ ev.pc = "done"
    /\ ev' = NoEvaluation
    /\ UNCHANGED <<build, ctx, mvars, tvars>>

NextGevm ==
    \/ Force
    \/ Unforce
    \/ BeginAssign
    \/ BeginEvaluate
    \/ Check
    \/ PreAssignRhsA
    \/ PreAssignRhsB
    \/ Select
    \/ KernelStart
    \/ KernelEnd
    \/ Visit
    \/ Read
    \/ Finish
    \/ Destroy

SpecGevm == InitGevm /\ [][NextGevm]_vars

\* ------------------------------------- claims on the temporary expressions

\* C3: a temporary expression read several times in one evaluated expression
\* runs its kernel at most once, exactly once when the evaluation is over, and
\* every read observes the whole result of that one run.
C3_MaterializeOnce ==
    ev.reads >= 1 =>
        /\ ev.runs <= 1
        /\ \A i \in 1..Len(ev.observed) : ev.observed[i] = [result |-> "full", run |-> 1]
        /\ ev.pc = "done" => (ev.runs = 1 /\ Len(ev.observed) = ev.reads)

\* m + m with m a gevm has been evaluated: two reads, both done.
C3_Witness ==
    /\ ev.pc = "done"
    /\ ev.kind = "gevm"
    /\ ev.reads >= 2
    /\ Len(ev.observed) = ev.reads
    /\ ev.result = "full"

\* C4: in assign_to the dimension check comes first, the kernel is entered
\* only after the check, pre_assign_rhs(a) and pre_assign_rhs(b) in this
\* order, and it is never entered on an operand that is not materialized.
C4_AssignOrder ==
    /\ (ev.trace # <<>>) => (ev.trace[1] = "check")
    /\ \A k \in 1..Len(ev.trace) :
          (ev.trace[k] = "kernel") =>
              \E c \in 1..(k - 1), x \in 1..(k - 1), y \in 1..(k - 1) :
                  /\ c < x
                  /\ x < y
                  /\ ev.trace[c] = "check"
                  /\ ev.trace[x] = "pre_assign_rhs_a"
                  /\ ev.trace[y] = "pre_assign_rhs_b"
    /\ (ev.result # "empty") =>
          (ev.inputs /\ Materialized(ev.a_op) /\ Materialized(ev.b_op))

\* A flipped conv_4d_backward over two temporary operands has been assigned.
C4_Witness ==
    /\ ev.pc = "done"
    /\ ev.kind = "conv4"
    /\ ev.flipped
    /\ ev.a_op.temporary
    /\ ev.b_op.temporary
    /\ ev.result = "full"

\* The selection of the current gevm has been made.
Selected == ev.kind = "gevm" /\ ev.impl # "none"

VecPossible == ev.all_vectorizable /\ build.vec_enabled

\* The conditions under which a forced implementation can be used.
Applicable(impl) ==
    CASE impl = "CUBLAS" -> build.cublas_enabled
      [] impl = "BLAS" -> build.cblas_enabled
      [] impl = "VEC" -> build.vec_enabled /\ ev.all_vectorizable
      [] OTHER -> TRUE

\* C5: under a forced selector the selection is the forced implementation
\* when it is applicable; when it is not, the mismatch is reported, the
\* selection is what select_default_gevm_impl gives for the same sizes, and
\* the assignment is not ended by the dispatch: it completes with a result.
C5_ForcedSelection ==
    (Selected /\ ctx.forced) =>
        /\ Applicable(ctx.impl) => (ev.impl = ctx.impl /\ ~ev.reported)
        /\ ~Applicable(ctx.impl) =>
              /\ ev.reported
              /\ ev.impl = select_default_gevm_impl(build, ev, ev.db[1], ev.db[2])
        /\ ev.pc # "failed"
        /\ ev.pc = "done" => ev.result = "full"

\* BLAS was forced in a build without BLAS, and the product completed.
C5_Witness ==
    /\ ctx.forced
    /\ ctx.impl = "BLAS"
    /\ ~build.cblas_enabled
    /\ ev.kind = "gevm"
    /\ ev.reported
    /\ ev.pc = "done"
    /\ ev.result = "full"

\* C6, as stated: without a forced selector, above a library's threshold with
\* the library compiled in and the element type supported, the selection is
\* BLAS for BLAS, and a library (not VEC or STD) for CUBLAS.
C6_LargeUsesLibrary ==
    (Selected /\ ~ctx.forced) =>
        /\ (build.cblas_enabled /\ ev.db[1] * ev.db[2] > 200 * 200) => ev.impl = "BLAS"
        /\ (build.cublas_enabled /\ ev.is_complex_single
                /\ ev.db[1] * ev.db[2] > 1000 * 1000) => ev.impl \in {"BLAS", "CUBLAS"}

\* C6, amended: without a forced selector, BLAS is selected above 200*200
\* whenever it is compiled in; without BLAS a vectorizable expression gets VEC
\* whatever its size, and CUBLAS is selected above 1000*1000 for
\* single-precision complex elements only when vectorization is not possible.
C6_LibraryAfterVec ==
    (Selected /\ ~ctx.forced) =>
        /\ (build.cblas_enabled /\ ev.db[1] * ev.db[2] > 200 * 200) => ev.impl = "BLAS"
        /\ (~build.cblas_enabled /\ VecPossible) => ev.impl = "VEC"
        /\ (~build.cblas_enabled /\ ~VecPossible /\ build.cublas_enabled
                /\ ev.is_complex_single /\ ev.db[1] * ev.db[2] > 1000 * 1000)
              => ev.impl = "CUBLAS"

\* A large vectorizable single-precision complex product in a build with
\* CUBLAS and without BLAS has been computed.
C6_Witness ==
    /\ ~ctx.forced
    /\ ev.kind = "gevm"
    /\ ev.pc = "done"
    /\ ~build.cblas_enabled
    /\ build.cublas_enabled
    /\ ev.is_complex_single
    /\ VecPossible
    /\ ev.db[1] * ev.db[2] > 1000 * 1000
    /\ ev.impl = "VEC"

\* C7, as stated: without a forced selector BLAS is selected only above
\* 200*200 and CUBLAS only above 1000*1000, and at or below 200*200 the
\* selection is VEC when vectorization is possible and STD otherwise.
C7_SizeConsidered ==
    (Selected /\ ~ctx.forced) =>
        /\ ev.impl = "BLAS" => ev.db[1] * ev.db[2] > 200 * 200
        /\ ev.impl = "CUBLAS" => ev.db[1] * ev.db[2] > 1000 * 1000
        /\ ev.db[1] * ev.db[2] <= 200 * 200 =>
              ev.impl = IF VecPossible THEN "VEC" ELSE "STD"

\* C7, amended: CUBLAS is selected only above 1000*1000; BLAS is selected
\* above 200*200 or when vectorization is not possible, then whatever the
\* size; at or below 200*200 the selection is VEC when vectorization is
\* possible, otherwise BLAS when it is compiled in and STD when it is not.
C7_SizeConsideredWithVec ==
    (Selected /\ ~ctx.forced) =>
        /\ ev.impl = "CUBLAS" => ev.db[1] * ev.db[2] > 1000 * 1000
        /\ ev.impl = "BLAS" => (ev.db[1] * ev.db[2] > 200 * 200 \/ ~VecPossible)
        /\ ev.db[1] * ev.db[2] <= 200 * 200 =>
              ev.impl = IF VecPossible THEN "VEC"
                        ELSE IF build.cblas_enabled THEN "BLAS"
                        ELSE "STD"

\* A 200 x 200 product that cannot be vectorized has been computed by BLAS.
C7_Witness ==
    /\ ~ctx.forced
    /\ ev.kind = "gevm"
    /\ ev.pc = "done"
    /\ build.cblas_enabled
    /\ ~VecPossible
    /\ ev.db[1] * ev.db[2] = 200 * 200
    /\ ev.impl = "BLAS"

\* ------------------------------------------------------------ transformers

\* The largest extent of a matrix a transformer is built over.
MaxDim == 3

\* The contents v, v + 1, ... of a matrix of n elements: every element differs.
Iota(n, v) == [k \in 1..n |-> v + k - 1]

\* The row-major matrices of at most MaxDim x MaxDim elements.
Subs ==
    {[rows |-> r, columns |-> c, data |-> Iota(r * c, v)] :
        r \in 1..MaxDim, c \in 1..MaxDim, v \in T}

\* fast_matrix::operator()(i, j): the two bounds assertions, then the element
fast_matrix_call(m, i, j) ==
    IF i < m.rows /\ j < m.columns
    THEN [value |-> m.data[i * m.columns + j + 1], failed |-> FALSE]
    ELSE [value |-> 0, failed |-> TRUE]

transpose_call_bug(m, i, j) == fast_matrix_call(m, i, j)

\* transpose_transformer::operator()(i, j)
transpose_call(m, i, j) == fast_matrix_call(m, j, i)

\* etl_traits<transpose_transformer>::dim(v, d)
transpose_dim(m, d) == dim(m.rows, m.columns, 1 - d)

\* etl_traits<transpose_transformer>::size(v)
transpose_size(m) == m.rows * m.columns

Access(op, i, j, r) ==
    [op |-> op, i |-> i, j |-> j, value |-> r.value, failed |-> r.failed]

InitView ==
    /\ view \in Subs
    /\ access = NoAccess
    /\ build = NoBuild
    /\ ctx = NoContext
    /\ ev = NoEvaluation
    /\ Rows = 1
    /\ Columns = 1
    /\ a = <<0>>
    /\ b = <<0>>
    /\ last = NoOp

\* transpose(sub)(i, j) for an index pair inside the extents of the view
TransposeCall ==
    /\ ~access.failed
    /\ \E i \in 0..(transpose_dim(view, 0) - 1), j \in 0..(transpose_dim(view, 1) - 1) :
          access' = Access("transpose_call", i, j, transpose_call(view, i, j))
    /\ UNCHANGED <<view, mvars, gvars>>

\* dim(transpose(sub), d)
TransposeDim ==
    /\ ~access.failed
    /\ \E d \in 0..1 :
          access' = Access("transpose_dim", d, 0, [value |-> transpose_dim(view, d), failed |-> FALSE])
    /\ UNCHANGED <<view, mvars, gvars>>

\* size(transpose(sub))
TransposeSize ==
    /\ ~access.failed
    /\ access' = Access("transpose_size", 0, 0, [value |-> transpose_size(view), failed |-> FALSE])
    /\ UNCHANGED <<view, mvars, gvars>>


transpose2_call_bug(m, i, j) == transpose_call(m, i, j)

\* transpose(transpose(m))(i, j): operator()(i, j) of the outer transformer
\* returns sub(j, i), where sub is the inner transformer.
transpose2_call(m, i, j) ==
    LET inner(x, y) == transpose_call(m, x, y)
    IN  inner(j, i)

\* dim(transpose(transpose(m)), d): the traits of the outer transformer ask
\* the traits of the inner one for 1 - d.
transpose2_dim(m, d) ==
    LET inner(k) == transpose_dim(m, k)
    IN  inner(1 - d)

\* transpose(transpose(view))(i, j) inside the extents the double view reports
Transpose2Call ==
    /\ ~access.failed
    /\ \E i \in 0..(transpose2_dim(view, 0) - 1), j \in 0..(transpose2_dim(view, 1) - 1) :
          access' = Access("transpose2_call", i, j, transpose2_call(view, i, j))
    /\ UNCHANGED <<view, mvars, gvars>>

\* dim(transpose(transpose(view)), d)
Transpose2Dim ==
    /\ ~access.failed
    /\ \E d \in 0..1 :
          access' = Access("transpose2_dim", d, 0,
                           [value |-> transpose2_dim(view, d), failed |-> FALSE])
    /\ UNCHANGED <<view, mvars, gvars>>

hflip_at_bug(m, i) == fast_matrix_at(m.data, i)

\* hflip_transformer::operator[](i)
hflip_at(m, i) == fast_matrix_at(m.data, size(m.rows, m.columns) - 1 - i)

\* hflip(view)[i] for a flat index of the operand
HflipAt ==
    /\ ~access.failed
    /\ \E i \in 0..(size(view.rows, view.columns) - 1) :
          access' = Access("hflip_at", i, 0, [value |-> hflip_at(view, i), failed |-> FALSE])
    /\ UNCHANGED <<view, mvars, gvars>>


\* operator()(i) of a one-dimensional operand: the bounds assertion, then
\* the element
vector_call(m, i) ==
    IF i < size(m.rows, m.columns)
    THEN [value |-> fast_matrix_at(m.data, i), failed |-> FALSE]
    ELSE [value |-> 0, failed |-> TRUE]

rep_r_call_bug(m, i, d) == vector_call(m, d)

\* rep<D>(m)(i, d): the index of the new trailing axis is dropped
rep_r_call(m, i, d) == vector_call(m, i)

\* rep_l<D>(m)(d, i): the index of the new leading axis is dropped
rep_l_call(m, d, i) == vector_call(m, i)

\* rep<D>(view)(i, d) over a one-dimensional operand, D up to MaxDim
RepCall ==
    /\ ~access.failed
    /\ view.rows = 1
    /\ \E D \in 1..MaxDim :
          \E i \in 0..(view.columns - 1), d \in 0..(D - 1) :
              access' = Access("rep_call", i, d, rep_r_call(view, i, d))
    /\ UNCHANGED <<view, mvars, gvars>>

\* rep_l<D>(view)(d, i) over a one-dimensional operand, D up to MaxDim
RepLCall ==
    /\ ~access.failed
    /\ view.rows = 1
    /\ \E D \in 1..MaxDim :
          \E d \in 0..(D - 1), i \in 0..(view.columns - 1) :
              access' = Access("rep_l_call", d, i, rep_l_call(view, d, i))
    /\ UNCHANGED <<view, mvars, gvars>>

\* hflip_transformer::operator()(i, j)
hflip_call(m, i, j) == fast_matrix_call(m, i, dim(m.rows, m.columns, 1) - 1 - j)

\* vflip_transformer::operator[](i)
vflip_at(m, i) == fast_matrix_at(m.data, i)

\* vflip_transformer::operator()(i, j)
vflip_call(m, i, j) == fast_matrix_call(m, dim(m.rows, m.columns, 0) - 1 - i, j)

\* fflip_transformer::operator[](i)
fflip_at(m, i) == fast_matrix_at(m.data, i)

\* fflip_transformer::operator()(i, j)
fflip_call(m, i, j) ==
    fast_matrix_call(m, dim(m.rows, m.columns, 0) - 1 - i, dim(m.rows, m.columns, 1) - 1 - j)

\* Element (i, j) of a flip of the matrix view is read both ways: by the
\* flat index i * C + j and by the two indexes.
FlipRead ==
    /\ ~access.failed
    /\ \E flip \in {"hflip", "vflip", "fflip"}, i \in 0..(view.rows - 1), j \in 0..(view.columns - 1) :
          LET flat == i * view.columns + j
              at == CASE flip = "hflip" -> hflip_at(view, flat)
                      [] flip = "vflip" -> vflip_at(view, flat)
                      [] OTHER -> fflip_at(view, flat)
              call == CASE flip = "hflip" -> hflip_call(view, i, j)
                        [] flip = "vflip" -> vflip_call(view, i, j)
                        [] OTHER -> fflip_call(view, i, j)
          IN  access' = Access(flip, i, j, [value |-> <<at, call.value>>, failed |-> call.failed])
    /\ UNCHANGED <<view, mvars, gvars>>

\* The largest extent of a convolution kernel.
MaxKernel == 2

\* The quantities the constructor of dyn_convmtx2_transformer and
\* convmtx2_direct_t compute alike from the input (i1 x i2) and the kernel.
\* inner_paddings / (i2 - 1) divides by zero when i2 = 1: the division traps,
\* or (on a machine whose division does not trap) gives 0.
convmtx2_geometry(m, k1, k2, traps) ==
    LET i1 == dim(m.rows, m.columns, 0)
        i2 == dim(m.rows, m.columns, 1)
        c_height == (i1 + k1 - 1) * (i2 + k2 - 1)
        c_width == k1 * k2
        max_fill == c_height - ((i1 + k1 - 1) * ((c_width - 1) \div k1) + ((c_width - 1) % k1))
        inner_paddings == max_fill - (i1 * i2)
    IN  [i1 |-> i1, i2 |-> i2, c_height |-> c_height, c_width |-> c_width,
         inner_paddings |-> inner_paddings,
         inner_padding |-> IF i2 - 1 = 0 THEN 0 ELSE inner_paddings \div (i2 - 1),
         trapped |-> (i2 - 1 = 0) /\ traps]

\* dyn_convmtx2_transformer::operator()(i, j)
convmtx2_call(m, k1, k2, traps, i, j) ==
    LET g == convmtx2_geometry(m, k1, k2, traps)
        top_padding == (g.i1 + k1 - 1) * (j \div k1) + (j % k1)
        inner == i - top_padding
        col == inner % (g.i1 + g.inner_padding)
        block == inner \div (g.i1 + g.inner_padding)
    IN  IF g.trapped THEN [value |-> 0, failed |-> TRUE]
        ELSE IF i < top_padding \/ i >= top_padding + (g.i1 * g.i2) + g.inner_paddings
        THEN [value |-> 0, failed |-> FALSE]
        ELSE IF col >= g.i1 THEN [value |-> 0, failed |-> FALSE]
        ELSE fast_matrix_call(m, col, block)

\* convmtx2_direct_t(m, sub, k1, k2) into the buffer of a destination of
\* c_width x c_height elements: the fill with zeros, then the writes
\* mm[j * c_width + big_i] = ss[jj * i2 + ii] in the order of the loops (a
\* later write to the same place replaces an earlier one).
convmtx2_direct_t(m, k1, k2, traps) ==
    LET g == convmtx2_geometry(m, k1, k2, traps)
        Writes == (0..(g.c_width - 1)) \X (0..(g.i2 - 1)) \X (0..(g.i1 - 1))
        big_i(w) == (g.i1 + k1 - 1) * (w[1] \div k1) + (w[1] % k1)
                        + w[2] * (g.i1 + g.inner_padding) + w[3]
        pos(w) == w[1] * g.c_width + big_i(w)
        ord(w) == (w[1] * g.i2 + w[2]) * g.i1 + w[3]
        At(p) == {w \in Writes : pos(w) = p}
        Final(p) == CHOOSE w \in At(p) : \A x \in At(p) : ord(x) <= ord(w)
    IN  IF g.trapped
        THEN [data |-> [p \in 1..(g.c_width * g.c_height) |-> 0], failed |-> TRUE]
        ELSE [data |-> [p \in 1..(g.c_width * g.c_height) |->
                           IF At(p - 1) = {} THEN 0
                           ELSE fast_matrix_at(m.data, Final(p - 1)[3] * g.i2 + Final(p - 1)[2])],
              failed |-> \E w \in Writes : pos(w) >= g.c_width * g.c_height]

\* convmtx2_direct_t(m, view, k1, k2) on a destination of
\* (k1 * k2) x ((i1 + k1 - 1) * (i2 + k2 - 1)) elements, as the first
\* operation on the input
Convmtx2DirectT ==
    /\ access = NoAccess
    /\ \E k1 \in 1..MaxKernel, k2 \in 1..MaxKernel, traps \in BOOLEAN :
          LET r == convmtx2_direct_t(view, k1, k2, traps)
          IN  access' = Access("convmtx2_direct_t", k1, k2, [value |-> r.data, failed |-> r.failed])
    /\ UNCHANGED <<view, mvars, gvars>>

\* im2col_direct(m, sub, k1, k2), the overload for operands without direct
\* memory access: m(b_j * k1 + b_i, b) = sub(s_i + b_i, s_j + b_j) through the
\* two-index accessors (each asserts its bounds) of a destination of
\* (k1 * k2) x m_width elements whose buffer held mm before the call. A step
\* is <<b, b_i, b_j>>; writes counts the writes to each element.
im2col_direct(mm, sub, k1, k2) ==
    LET i1 == dim(sub.rows, sub.columns, 0)
        i2 == dim(sub.rows, sub.columns, 1)
        m_width == (i1 - k1 + 1) * (i2 - k2 + 1)
        Steps == (0..(m_width - 1)) \X (0..(k1 - 1)) \X (0..(k2 - 1))
        s_i(w) == w[1] % (i1 - k1 + 1)
        s_j(w) == w[1] \div (i1 - k1 + 1)
        row(w) == w[3] * k1 + w[2]
        pos(w) == row(w) * m_width + w[1]
        read(w) == fast_matrix_call(sub, s_i(w) + w[2], s_j(w) + w[3])
        ord(w) == (w[1] * k1 + w[2]) * k2 + w[3]
        At(p) == {w \in Steps : pos(w) = p}
        Final(p) == CHOOSE w \in At(p) : \A x \in At(p) : ord(x) <= ord(w)
    IN  [data |-> [p \in 1..Len(mm) |->
                      IF At(p - 1) = {} THEN mm[p] ELSE read(Final(p - 1)).value],
         writes |-> [p \in 1..Len(mm) |-> Cardinality(At(p - 1))],
         failed |-> \E w \in Steps :
                       \/ ~(row(w) < k1 * k2 /\ w[1] < m_width)
                       \/ read(w).failed]

im2col_direct_dma_bug(mm, sub, k1, k2) ==
    LET i1 == dim(sub.rows, sub.columns, 0)
        i2 == dim(sub.rows, sub.columns, 1)
        m_width == (i1 - k1 + 1) * (i2 - k2 + 1)
        Steps == (0..(m_width - 1)) \X (0..(k1 - 1)) \X (0..(k2 - 1))
        s_i(w) == w[1] % (i1 - k1 + 1)
        s_j(w) == w[1] \div (i1 - k1 + 1)
        pos(w) == (w[3] * k1 + w[2]) * m_width + w[1]
        from(w) == (s_i(w) + w[2]) * i1 + s_j(w) + w[3]
        ord(w) == (w[1] * k1 + w[2]) * k2 + w[3]
        At(p) == {w \in Steps : pos(w) = p}
        Final(p) == CHOOSE w \in At(p) : \A x \in At(p) : ord(x) <= ord(w)
    IN  [data |-> [p \in 1..Len(mm) |->
                      IF At(p - 1) = {} THEN mm[p]
                      ELSE IF from(Final(p - 1)) < Len(sub.data)
                      THEN fast_matrix_at(sub.data, from(Final(p - 1)))
                      ELSE 0],
         writes |-> [p \in 1..Len(mm) |-> Cardinality(At(p - 1))],
         failed |-> \E w \in Steps : pos(w) >= Len(mm) \/ from(w) >= Len(sub.data)]

\* im2col_direct(m, sub, k1, k2), the overload for operands with direct
\* memory access: mm[(b_j * k1 + b_i) * m_width + b] =
\* ss[(s_i + b_i) * i2 + s_j + b_j] on the two buffers, with no assertion; an
\* access outside a buffer is recorded as a failure.
im2col_direct_dma(mm, sub, k1, k2) ==
    LET i1 == dim(sub.rows, sub.columns, 0)
        i2 == dim(sub.rows, sub.columns, 1)
        m_width == (i1 - k1 + 1) * (i2 - k2 + 1)
        Steps == (0..(m_width - 1)) \X (0..(k1 - 1)) \X (0..(k2 - 1))
        s_i(w) == w[1] % (i1 - k1 + 1)
        s_j(w) == w[1] \div (i1 - k1 + 1)
        pos(w) == (w[3] * k1 + w[2]) * m_width + w[1]
        from(w) == (s_i(w) + w[2]) * i2 + s_j(w) + w[3]
        ord(w) == (w[1] * k1 + w[2]) * k2 + w[3]
        At(p) == {w \in Steps : pos(w) = p}
        Final(p) == CHOOSE w \in At(p) : \A x \in At(p) : ord(x) <= ord(w)
    IN  [data |-> [p \in 1..Len(mm) |->
                      IF At(p - 1) = {} THEN mm[p]
                      ELSE IF from(Final(p - 1)) < Len(sub.data)
                      THEN fast_matrix_at(sub.data, from(Final(p - 1)))
                      ELSE 0],
         writes |-> [p \in 1..Len(mm) |-> Cardinality(At(p - 1))],
         failed |-> \E w \in Steps : pos(w) >= Len(mm) \/ from(w) >= Len(sub.data)]

\* im2col_direct(m, view, k1, k2) with a kernel that fits the input, on a
\* destination of (k1 * k2) x ((i1 - k1 + 1) * (i2 - k2 + 1)) elements; the
\* operand types select the overload. It is the first operation on the input.
Im2colDirect ==
    /\ access = NoAccess
    /\ \E k1 \in 1..MaxKernel, k2 \in 1..MaxKernel, all_dma \in BOOLEAN :
          /\ k1 <= view.rows
          /\ k2 <= view.columns
          /\ LET m_width == (view.rows - k1 + 1) * (view.columns - k2 + 1)
                 mm == [p \in 1..(k1 * k2 * m_width) |-> 0]
                 r == IF all_dma THEN im2col_direct_dma(mm, view, k1, k2)
                      ELSE im2col_direct(mm, view, k1, k2)
             IN  access' = Access(IF all_dma THEN "im2col_direct_dma" ELSE "im2col_direct",
                                  k1, k2,
                                  [value |-> [data |-> r.data, writes |-> r.writes],
                                   failed |-> r.failed])
    /\ UNCHANGED <<view, mvars, gvars>>

NextView ==
    \/ TransposeCall
    \/ TransposeDim
    \/ TransposeSize
    \/ Transpose2Call
    \/ Transpose2Dim
    \/ HflipAt
    \/ FlipRead
    \/ Convmtx2DirectT
    \/ Im2colDirect
    \/ RepCall
    \/ RepLCall

SpecView == InitView /\ [][NextView]_vars

\* C10: over a matrix of shape (R, C) whose element (r, c) is v + r * C + c,
\* the transposed view has extents (C, R) and size R * C, and its element
\* (i, j), i < C and j < R, is read without a failed assertion and is the
\* element (j, i) of the matrix.
C10_Transpose ==
    /\ access.op = "transpose_dim" =>
          access.value = IF access.i = 0 THEN view.columns ELSE view.rows
    /\ access.op = "transpose_size" => access.value = view.rows * view.columns
    /\ access.op = "transpose_call" =>
          /\ access.i < view.columns
          /\ access.j < view.rows
          /\ ~access.failed
          /\ access.value = view.data[1] + access.j * view.columns + access.i

\* The element (2, 0) of the transpose of a 2 x 3 matrix has been read.
C10_Witness ==
    /\ access.op = "transpose_call"
    /\ view.rows = 2
    /\ view.columns = 3
    /\ access.i = 2
    /\ access.j = 0
    /\ ~access.failed

\* C11: the transpose of the transpose of a matrix has the extents of the
\* matrix, every index pair of the matrix is inside them, and its element
\* (i, j) is read without a failed assertion and is the element (i, j) of the
\* matrix.
C11_TransposeRoundTrip ==
    /\ access.op = "transpose2_dim" =>
          access.value = IF access.i = 0 THEN view.rows ELSE view.columns
    /\ access.op = "transpose2_call" =>
          /\ access.i < view.rows
          /\ access.j < view.columns
          /\ ~access.failed
          /\ access.value = view.data[access.i * view.columns + access.j + 1]
    /\ \A i \in 0..(view.rows - 1), j \in 0..(view.columns - 1) :
          /\ i < transpose2_dim(view, 0)
          /\ j < transpose2_dim(view, 1)

\* The last element of the double transpose of a 2 x 3 matrix has been read.
C11_Witness ==
    /\ access.op = "transpose2_call"
    /\ view.rows = 2
    /\ view.columns = 3
    /\ access.i = 1
    /\ access.j = 2
    /\ ~access.failed

\* C12: over a one-dimensional operand of n elements, element i of the
\* horizontal flip is element n - 1 - i of the operand, for every i < n.
C12_HflipVector ==
    (access.op = "hflip_at" /\ view.rows = 1) =>
        /\ ~access.failed
        /\ access.value = view.data[(view.columns - 1 - access.i) + 1]

\* The first element of the flip of a vector of 3 elements has been read.
C12_Witness ==
    /\ access.op = "hflip_at"
    /\ view.rows = 1
    /\ view.columns = 3
    /\ access.i = 0
    /\ access.value = view.data[3]

\* C13: over a one-dimensional operand, element (i, d) of rep<D> and element
\* (d, i) of rep_l<D> are element i of the operand, for every index i of the
\* operand and every index d of the new axis.
C13_RepReplicates ==
    /\ access.op = "rep_call" =>
          (~access.failed /\ access.value = view.data[access.i + 1])
    /\ access.op = "rep_l_call" =>
          (~access.failed /\ access.value = view.data[access.j + 1])

\* Column 2 of row 1 of rep<3> of a vector of 3 elements has been read.
C13_Witness ==
    /\ access.op = "rep_call"
    /\ view.columns = 3
    /\ access.i = 1
    /\ access.j = 2
    /\ access.value = view.data[2]

\* ------------------------------------------------------------------ pooling

\* The largest extent of a pooled matrix, and the largest pooling ratio.
MaxPoolDim == 4

MaxRatio == 2

\* The contents n, n - 1, ..., 1: the largest element comes first.
Descending(n) == [k \in 1..n |-> n - k + 1]

\* The pooled matrices: ascending and descending contents, every shape.
PoolInputs ==
    UNION {{[rows |-> r, columns |-> c, data |-> d] :
                d \in {Iota(r * c, 1), Descending(r * c)}} :
           r \in 1..MaxPoolDim, c \in 1..MaxPoolDim}

Max(S) == CHOOSE x \in S : \A y \in S : y <= x

Min(S) == CHOOSE x \in S : \A y \in S : x <= y

\* The cells sub(j * C1 + jj, k * C2 + kk) the two inner loops read.
Window(C1, C2, j, k) ==
    {<<j * C1 + jj, k * C2 + kk>> : jj \in 0..(C1 - 1), kk \in 0..(C2 - 1)}

max_pool_window_bug(m, C1, C2, j, k) ==
    Min({fast_matrix_call(m, w[1], w[2]).value : w \in Window(C1, C2, j, k)})

\* max = sub(j * C1, k * C2), then std::max over the window
max_pool_window(m, C1, C2, j, k) ==
    Max({fast_matrix_call(m, w[1], w[2]).value : w \in Window(C1, C2, j, k)})

\* impl::max_pool_2d::apply<C1, C2>(sub, m) into a destination of
\* (rows / C1) x (columns / C2) elements, zero before the call: the cells are
\* written in the order of the loops, up to the first one whose window or
\* whose own index fails a bounds assertion.
max_pool_2d(m, C1, C2) ==
    LET o1 == m.rows \div C1
        o2 == m.rows \div C2
        drows == m.rows \div C1
        dcols == m.columns \div C2
        Fails(j, k) ==
            \/ \E w \in Window(C1, C2, j, k) : fast_matrix_call(m, w[1], w[2]).failed
            \/ ~(j < drows /\ k < dcols)
        Before(j, k, jf, kf) == j < jf \/ (j = jf /\ k < kf)
        Failing == {c \in (0..(o1 - 1)) \X (0..(o2 - 1)) : Fails(c[1], c[2])}
        First == CHOOSE c \in Failing :
                    \A x \in Failing : x = c \/ Before(c[1], c[2], x[1], x[2])
        Written(j, k) ==
            /\ j < o1
            /\ k < o2
            /\ (Failing # {}) => Before(j, k, First[1], First[2])
    IN  [rows |-> drows, columns |-> dcols, o1 |-> o1, o2 |-> o2,
         data |-> [c \in 1..(drows * dcols) |->
                      LET j == (c - 1) \div dcols
                          k == (c - 1) % dcols
                      IN  IF Written(j, k) THEN max_pool_window(m, C1, C2, j, k) ELSE 0],
         failed |-> Failing # {}]

InitPool ==
    /\ view \in PoolInputs
    /\ access = NoAccess
    /\ build = NoBuild
    /\ ctx = NoContext
    /\ ev = NoEvaluation
    /\ Rows = 1
    /\ Columns = 1
    /\ a = <<0>>
    /\ b = <<0>>
    /\ last = NoOp

\* fast_matrix<T, R / C1, C / C2> b(max_pool_2d<C1, C2>(view))
MaxPool2d ==
    /\ access.op = "none"
    /\ \E C1 \in 1..MaxRatio, C2 \in 1..MaxRatio :
          access' = Access("max_pool_2d", C1, C2,
                           [value |-> max_pool_2d(view, C1, C2), failed |-> FALSE])
    /\ UNCHANGED <<view, mvars, gvars>>

\* The pooled matrix goes out of scope and another input is pooled.
PoolAgain ==
    /\ access.op # "none"
    /\ view' \in PoolInputs
    /\ access' = NoAccess
    /\ UNCHANGED <<mvars, gvars>>

\* etl_traits<p_max_pool_p_transformer<T, C1, C2>>::size(v) over a matrix
p_max_pool_p_size(m, C1, C2) == (m.rows * m.columns) \div (C1 * C2)

\* etl_traits<p_max_pool_p_transformer<T, C1, C2>>::dim(v, d) over a matrix,
\* whose dimensions() is 2
p_max_pool_p_dim(m, C1, C2, d) ==
    LET dimensions == 2
    IN  IF d = dimensions - 1 THEN dim(m.rows, m.columns, d) \div C2
        ELSE IF d = dimensions - 2 THEN dim(m.rows, m.columns, d) \div C1
        ELSE dim(m.rows, m.columns, d)

\* size(p_max_pool_p<C1, C2>(view)) and its two extents
PMaxPoolPTraits ==
    /\ access.op = "none"
    /\ \E C1 \in 1..MaxRatio, C2 \in 1..MaxRatio :
          access' = Access("p_max_pool_p_traits", C1, C2,
                           [value |-> [size |-> p_max_pool_p_size(view, C1, C2),
                                       dims |-> <<p_max_pool_p_dim(view, C1, C2, 0),
                                                  p_max_pool_p_dim(view, C1, C2, 1)>>],
                            failed |-> FALSE])
    /\ UNCHANGED <<view, mvars, gvars>>

NextPool ==
    \/ MaxPool2d
    \/ PMaxPoolPTraits
    \/ PoolAgain

SpecPool == InitPool /\ [][NextPool]_vars

\* C14: max_pool_2d<2, 2> of the 4 x 4 row-major matrix 1..16 fails no
\* assertion and gives the 2 x 2 matrix [[6, 8], [14, 16]].
C14_MaxPoolExample ==
    (/\ access.op = "max_pool_2d"
     /\ view = [rows |-> 4, columns |-> 4, data |-> Iota(16, 1)]
     /\ access.i = 2
     /\ access.j = 2) =>
        /\ ~access.value.failed
        /\ access.value.rows = 2
        /\ access.value.columns = 2
        /\ access.value.data = <<6, 8, 14, 16>>

\* The 4 x 4 matrix 1..16 has been pooled with ratios 2 and 2.
C14_Witness ==
    /\ access.op = "max_pool_2d"
    /\ view = [rows |-> 4, columns |-> 4, data |-> Iota(16, 1)]
    /\ access.i = 2
    /\ access.j = 2
    /\ access.value.data[1] = 6

\* ------------------------------------------------------ parallel evaluation

\* The largest flat index range and the largest number of workers.
MaxFlat == 5

MaxWorkers == 3

slice_bug(n, w, t) == <<t * (n \div w), IF n = 0 THEN 0 ELSE n>>

\* The slice [first, last) of worker t among w workers over [0, n): equal
\* contiguous batches, the last worker taking the remainder.
slice(n, w, t) ==
    LET batch == n \div w
    IN  <<t * batch, IF t = w - 1 THEN n ELSE (t + 1) * batch>>

NoAssignment ==
    [pc |-> "idle", n |-> 0, w |-> 1, next |-> <<0>>, writers |-> <<>>, returned |-> FALSE]

InitParallel ==
    /\ ev = NoAssignment
    /\ build = NoBuild
    /\ ctx = NoContext
    /\ view = NoSub
    /\ access = NoAccess
    /\ Rows = 1
    /\ Columns = 1
    /\ a = <<0>>
    /\ b = <<0>>
    /\ last = NoOp

\* A parallel assignment of n elements starts: one slice is dispatched to
\* each of the w workers.
Dispatch ==
    /\ ev.pc \in {"idle", "done"}
    /\ \E n \in 0..MaxFlat, w \in 1..MaxWorkers :
          ev' = [pc |-> "running", n |-> n, w |-> w,
                 next |-> [t \in 1..w |-> slice(n, w, t - 1)[1]],
                 writers |-> [i \in 1..n |-> {}], returned |-> FALSE]
    /\ UNCHANGED <<build, ctx, mvars, tvars>>

\* A worker writes the next element of its slice.
WorkerWrite ==
    /\ ev.pc = "running"
    /\ \E t \in 1..ev.w :
          /\ ev.next[t] < slice(ev.n, ev.w, t - 1)[2]
          /\ ev' = [ev EXCEPT !.writers[ev.next[t] + 1] = @ \cup {t},
                              !.next[t] = @ + 1]
    /\ UNCHANGED <<build, ctx, mvars, tvars>>

\* The wait ends when every worker has finished its slice; the assignment
\* returns.
Join ==
    /\ ev.pc = "running"
    /\ \A t \in 1..ev.w : ev.next[t] >= slice(ev.n, ev.w, t - 1)[2]
    /\ ev' = [ev EXCEPT !.pc = "done", !.returned = TRUE]
    /\ UNCHANGED <<build, ctx, mvars, tvars>>

NextParallel ==
    \/ Dispatch
    \/ WorkerWrite
    \/ Join

SpecParallel == InitParallel /\ [][NextParallel]_vars

\* C15: the slices of the workers are contiguous, pairwise disjoint and
\* cover [0, n); no element is ever written by two workers or twice; and when
\* the assignment has returned every worker has finished and every element
\* has been written by exactly one worker.
C15_DisjointSlices ==
    ev.pc \in {"running", "done"} =>
        /\ slice(ev.n, ev.w, 0)[1] = 0
        /\ slice(ev.n, ev.w, ev.w - 1)[2] = ev.n
        /\ \A t \in 0..(ev.w - 1) : slice(ev.n, ev.w, t)[1] <= slice(ev.n, ev.w, t)[2]
        /\ \A t \in 0..(ev.w - 2) : slice(ev.n, ev.w, t)[2] = slice(ev.n, ev.w, t + 1)[1]
        /\ \A i \in 1..ev.n : Cardinality(ev.writers[i]) <= 1
        /\ \A t \in 1..ev.w : ev.next[t] <= slice(ev.n, ev.w, t - 1)[2]
        /\ ev.returned =>
              /\ \A i \in 1..ev.n : Cardinality(ev.writers[i]) = 1
              /\ \A t \in 1..ev.w : ev.next[t] = slice(ev.n, ev.w, t - 1)[2]

\* Four elements have been written by three workers and the call returned.
C15_Witness ==
    /\ ev.pc = "done"
    /\ ev.returned
    /\ ev.n = 4
    /\ ev.w = 3
    /\ ev.writers = <<{1}, {2}, {3}, {3}>>

\* ---------------------------------------------------------- residency hooks

\* The residency state of a container: whether its host copy and its device
\* copy are current, and whether device memory is allocated for it.
Memories ==
    {m \in [cpu : BOOLEAN, gpu : BOOLEAN, allocated : BOOLEAN] : m.gpu => m.allocated}

\* An input of a backend call holds its data somewhere.
InputMemories == {m \in Memories : m.cpu \/ m.gpu}

NoMemory == [cpu |-> TRUE, gpu |-> FALSE, allocated |-> FALSE]

DeviceCalls == {"cudnn::pool_2d", "cudnn::pool_3d"}

HostCalls ==
    {"blas::gemm", "blas::gemm_nt", "blas::gemm_tn", "blas::gemm_tt", "blas::gemv", "blas::gevm"}

backend_steps_bug(call) ==
    IF call \in DeviceCalls
    THEN <<"a.ensure_gpu_up_to_date", "kernel", "c.ensure_gpu_allocated", "c.validate_gpu", "c.invalidate_cpu">>
    ELSE <<"a.ensure_cpu_up_to_date", "kernel", "b.ensure_cpu_up_to_date", "c.invalidate_gpu">>

\* The statements of a backend wrapper that touch the residency of its
\* operands, in the order of the body; a is the (first) input, b the second
\* input of a BLAS call, c the output.
backend_steps(call) ==
    IF call \in DeviceCalls
    THEN <<"a.ensure_gpu_up_to_date", "c.ensure_gpu_allocated", "kernel", "c.validate_gpu", "c.invalidate_cpu">>
    ELSE <<"a.ensure_cpu_up_to_date", "b.ensure_cpu_up_to_date", "kernel", "c.invalidate_gpu">>

ensure_cpu_up_to_date(m) == [m EXCEPT !.cpu = TRUE]

ensure_gpu_allocated(m) == [m EXCEPT !.allocated = TRUE]

ensure_gpu_up_to_date(m) == [m EXCEPT !.allocated = TRUE, !.gpu = TRUE]

validate_gpu(m) == [m EXCEPT !.gpu = TRUE]

invalidate_cpu(m) == [m EXCEPT !.cpu = FALSE]

invalidate_gpu(m) == [m EXCEPT !.gpu = FALSE]

NoCall ==
    [pc |-> "idle", call |-> "none", step |-> 0, a |-> NoMemory, b |-> NoMemory, c |-> NoMemory,
     at_kernel |-> <<>>, trace |-> <<>>]

InitResidency ==
    /\ ev = NoCall
    /\ build = NoBuild
    /\ ctx = NoContext
    /\ view = NoSub
    /\ access = NoAccess
    /\ Rows = 1
    /\ Columns = 1
    /\ a = <<0>>
    /\ b = <<0>>
    /\ last = NoOp

\* A backend wrapper is entered with inputs in any residency state; its
\* output is the container c, a fresh container on the host at first and
\* then as the calls before left it.
BeginCall ==
    /\ ev.pc = "idle"
    /\ \E call \in DeviceCalls \cup HostCalls, ma \in InputMemories, mb \in InputMemories :
          /\ call \in DeviceCalls => mb = NoMemory
          /\ ev' = [NoCall EXCEPT !.pc = "call", !.call = call, !.step = 1, !.a = ma, !.b = mb, !.c = ev.c]
    /\ UNCHANGED <<build, ctx, mvars, tvars>>

AtHook(name) == ev.pc = "call" /\ backend_steps(ev.call)[ev.step] = name

\* The statement at e.step has run; after the last one the wrapper returns.
HookDone(e, name) ==
    LET logged == [e EXCEPT !.trace = Append(@, name)]
    IN  IF e.step < Len(backend_steps(e.call)) THEN [logged EXCEPT !.step = @ + 1]
        ELSE [logged EXCEPT !.pc = "done", !.step = 0]

EnsureGpuUpToDate ==
    /\ AtHook("a.ensure_gpu_up_to_date")
    /\ ev' = HookDone([ev EXCEPT !.a = ensure_gpu_up_to_date(@)], "a.ensure_gpu_up_to_date")
    /\ UNCHANGED <<build, ctx, mvars, tvars>>

EnsureGpuAllocated ==
    /\ AtHook("c.ensure_gpu_allocated")
    /\ ev' = HookDone([ev EXCEPT !.c = ensure_gpu_allocated(@)], "c.ensure_gpu_allocated")
    /\ UNCHANGED <<build, ctx, mvars, tvars>>

EnsureCpuUpToDateA ==
    /\ AtHook("a.ensure_cpu_up_to_date")
    /\ ev' = HookDone([ev EXCEPT !.a = ensure_cpu_up_to_date(@)], "a.ensure_cpu_up_to_date")
    /\ UNCHANGED <<build, ctx, mvars, tvars>>

EnsureCpuUpToDateB ==
    /\ AtHook("b.ensure_cpu_up_to_date")
    /\ ev' = HookDone([ev EXCEPT !.b = ensure_cpu_up_to_date(@)], "b.ensure_cpu_up_to_date")
    /\ UNCHANGED <<build, ctx, mvars, tvars>>

\* cudnnPoolingForward or cblas_gemm / cblas_gemv runs on the operands as
\* they are now.
BackendKernel ==
    /\ AtHook("kernel")
    /\ ev' = HookDone([ev EXCEPT !.at_kernel = <<[a |-> ev.a, b |-> ev.b, c |-> ev.c]>>], "kernel")
    /\ UNCHANGED <<build, ctx, mvars, tvars>>

ValidateGpu ==
    /\ AtHook("c.validate_gpu")
    /\ ev' = HookDone([ev EXCEPT !.c = validate_gpu(@)], "c.validate_gpu")
    /\ UNCHANGED <<build, ctx, mvars, tvars>>

InvalidateCpu ==
    /\ AtHook("c.invalidate_cpu")
    /\ ev' = HookDone([ev EXCEPT !.c = invalidate_cpu(@)], "c.invalidate_cpu")
    /\ UNCHANGED <<build, ctx, mvars, tvars>>

InvalidateGpu ==
    /\ AtHook("c.invalidate_gpu")
    /\ ev' = HookDone([ev EXCEPT !.c = invalidate_gpu(@)], "c.invalidate_gpu")
    /\ UNCHANGED <<build, ctx, mvars, tvars>>

\* The wrapper has returned; the next call may start, on the same output.
EndCall ==
    /\ ev.pc = "done"
    /\ ev' = [NoCall EXCEPT !.c = ev.c]
    /\ UNCHANGED <<build, ctx, mvars, tvars>>

NextResidency ==
    \/ BeginCall
    \/ EnsureGpuUpToDate
    \/ EnsureGpuAllocated
    \/ EnsureCpuUpToDateA
    \/ EnsureCpuUpToDateB
    \/ BackendKernel
    \/ ValidateGpu
    \/ InvalidateCpu
    \/ InvalidateGpu
    \/ EndCall

SpecResidency == InitResidency /\ [][NextResidency]_vars

IsPrefix(s, t) == Len(s) <= Len(t) /\ \A i \in 1..Len(s) : s[i] = t[i]

\* C16: in a cuDNN pooling call the input is made current on the GPU, then
\* the output is allocated on the GPU, then the kernel runs (on an input
\* that is current on the GPU and an output that is allocated there), then
\* the output's GPU copy is marked valid and then its CPU copy stale; in a
\* BLAS call both inputs are made current on the CPU, then the kernel runs
\* (on inputs that are current on the CPU), then the output's GPU copy is
\* marked stale. A call that has returned has run all of these.
C16_HooksBracketKernel ==
    ev.pc \in {"call", "done"} =>
        LET device == <<"a.ensure_gpu_up_to_date", "c.ensure_gpu_allocated", "kernel",
                        "c.validate_gpu", "c.invalidate_cpu">>
            host == <<"a.ensure_cpu_up_to_date", "b.ensure_cpu_up_to_date", "kernel", "c.invalidate_gpu">>
            order == IF ev.call \in DeviceCalls THEN device ELSE host
        IN  /\ IsPrefix(ev.trace, order)
            /\ ev.pc = "done" => ev.trace = order
            /\ ev.at_kernel # <<>> =>
                  IF ev.call \in DeviceCalls
                  THEN /\ ev.at_kernel[1].a.gpu
                       /\ ev.at_kernel[1].a.allocated
                       /\ ev.at_kernel[1].c.allocated
                  ELSE /\ ev.at_kernel[1].a.cpu
                       /\ ev.at_kernel[1].b.cpu
            /\ ev.pc = "done" =>
                  IF ev.call \in DeviceCalls
                  THEN ev.c.gpu /\ ~ev.c.cpu
                  ELSE ~ev.c.gpu

\* A pooling call has returned whose output was current only on the host
\* when the kernel ran.
C16_Witness ==
    /\ ev.pc = "done"
    /\ ev.call = "cudnn::pool_2d"
    /\ ev.a = [cpu |-> TRUE, gpu |-> TRUE, allocated |-> TRUE]
    /\ ev.c = [cpu |-> FALSE, gpu |-> TRUE, allocated |-> TRUE]
    /\ ev.at_kernel[1].c = [cpu |-> TRUE, gpu |-> FALSE, allocated |-> TRUE]

\* ------------------------------------------------------- backend wrappers

\* The macros the egblas wrappers test. egblas.hpp, which defines them, is
\* included only under ETL_EGBLAS_MODE.
Macros ==
    {"EGBLAS_HAS_CCONJ", "EGBLAS_HAS_Zconj",
     "EGBLAS_HAS_SSIGN", "EGBLAS_HAS_DSIGN", "EGBLAS_HAS_CSIGN", "EGBLAS_HAS_ZSIGN",
     "EGBLAS_HAS_SPOW_YX", "EGBLAS_HAS_DPOW_YX", "EGBLAS_HAS_CPOW_YX", "EGBLAS_HAS_ZPOW_YX",
     "EGBLAS_HAS_SCALAR_SDIV", "EGBLAS_HAS_SCALAR_DDIV"}

\* A build: the modes and the macros that are defined.
BackendBuilds ==
    {bld \in [egblas_mode : BOOLEAN, blas_mode : BOOLEAN, defined : SUBSET Macros] :
        ~bld.egblas_mode => bld.defined = {}}

Wrapper(fn, type, guard, flag, flag_guard) ==
    [fn |-> fn, type |-> type, guard |-> guard, flag |-> flag, flag_guard |-> flag_guard]

\* The overloads of the egblas wrappers: the macro tested in the body, the
\* capability flag that goes with the overload and the macro the flag tests.
EgblasWrappers ==
    {Wrapper("conj", "std::complex<float>", "EGBLAS_HAS_CCONJ", "has_cconj", "EGBLAS_HAS_CCONJ"),
     Wrapper("conj", "etl::complex<float>", "EGBLAS_HAS_CCONJ", "has_cconj", "EGBLAS_HAS_CCONJ"),
     Wrapper("conj", "std::complex<double>", "EGBLAS_HAS_Zconj", "has_zconj", "EGBLAS_HAS_Zconj"),
     Wrapper("conj", "etl::complex<double>", "EGBLAS_HAS_Zconj", "has_zconj", "EGBLAS_HAS_Zconj"),
     Wrapper("sign", "float", "EGBLAS_HAS_SSIGN", "has_ssign", "EGBLAS_HAS_SSIGN"),
     Wrapper("sign", "double", "EGBLAS_HAS_DSIGN", "has_dsign", "EGBLAS_HAS_DSIGN"),
     Wrapper("sign", "std::complex<float>", "EGBLAS_HAS_CSIGN", "has_csign", "EGBLAS_HAS_CSIGN"),
     Wrapper("sign", "etl::complex<float>", "EGBLAS_HAS_CSIGN", "has_csign", "EGBLAS_HAS_CSIGN"),
     Wrapper("sign", "std::complex<double>", "EGBLAS_HAS_ZSIGN", "has_zsign", "EGBLAS_HAS_ZSIGN"),
     Wrapper("sign", "etl::complex<double>", "EGBLAS_HAS_ZSIGN", "has_zsign", "EGBLAS_HAS_ZSIGN"),
     Wrapper("pow_yx", "float", "EGBLAS_HAS_SPOW_YX", "has_spow_yx", "EGBLAS_HAS_SPOW_YX"),
     Wrapper("pow_yx", "double", "EGBLAS_HAS_DPOW_YX", "has_dpow_yx", "EGBLAS_HAS_DPOW_YX"),
     Wrapper("pow_yx", "std::complex<float>", "EGBLAS_HAS_CPOW_YX", "has_cpow_yx", "EGBLAS_HAS_CPOW_YX"),
     Wrapper("pow_yx", "etl::complex<float>", "EGBLAS_HAS_CPOW_YX", "has_cpow_yx", "EGBLAS_HAS_CPOW_YX"),
     Wrapper("pow_yx", "std::complex<double>", "EGBLAS_HAS_ZPOW_YX", "has_zpow_yx", "EGBLAS_HAS_ZPOW_YX"),
     Wrapper("pow_yx", "etl::complex<double>", "EGBLAS_HAS_ZPOW_YX", "has_zpow_yx", "EGBLAS_HAS_ZPOW_YX"),
     Wrapper("scalar_div", "float", "EGBLAS_HAS_SCALAR_SDIV", "has_scalar_sdiv", "EGBLAS_HAS_SCALAR_SDIV"),
     Wrapper("scalar_div", "double", "EGBLAS_HAS_SCALAR_DDIV", "has_scalar_ddiv", "EGBLAS_HAS_SCALAR_DDIV")}

\* The BLAS wrappers: one body under ETL_BLAS_MODE, one without; no flag is
\* declared with them.
BlasWrappers ==
    {Wrapper(fn, "T", "ETL_BLAS_MODE", "none", "none") :
        fn \in {"gemm", "gemm_nt", "gemm_tn", "gemm_tt", "gemv", "gevm"}}

\* The value of the capability flag of an egblas overload.
has_flag(bld, w) == w.flag_guard \in bld.defined

wrapper_call_bug(bld, w) == "delegates"

\* What a call of the wrapper does in a build: it delegates to the library,
\* it reaches cpp_unreachable, or (scalar_div under ETL_EGBLAS_MODE without
\* the macro of its type) no overload exists and the call does not compile.
wrapper_call(bld, w) ==
    IF w \in BlasWrappers
    THEN IF bld.blas_mode THEN "delegates" ELSE "unreachable"
    ELSE IF w.fn = "scalar_div"
    THEN IF w.guard \in bld.defined THEN "delegates"
         ELSE IF ~bld.egblas_mode THEN "unreachable"
         ELSE "ill-formed"
    ELSE IF w.guard \in bld.defined THEN "delegates" ELSE "unreachable"

NoWrapperCall ==
    [pc |-> "idle", wrapper |-> Wrapper("none", "T", "none", "none", "none"), written |-> FALSE]

InitBackend ==
    /\ build \in BackendBuilds
    /\ ev = NoWrapperCall
    /\ ctx = NoContext
    /\ view = NoSub
    /\ access = NoAccess
    /\ Rows = 1
    /\ Columns = 1
    /\ a = <<0>>
    /\ b = <<0>>
    /\ last = NoOp

\* The program calls a wrapper that exists in its build.
EnterWrapper ==
    /\ ev.pc = "idle"
    /\ \E w \in EgblasWrappers \cup BlasWrappers :
          /\ wrapper_call(build, w) # "ill-formed"
          /\ ev' = [pc |-> "entered", wrapper |-> w, written |-> FALSE]
    /\ UNCHANGED <<build, ctx, mvars, tvars>>

\* The body is the library call: the output is written and the call returns.
Delegate ==
    /\ ev.pc = "entered"
    /\ wrapper_call(build, ev.wrapper) = "delegates"
    /\ ev' = [ev EXCEPT !.pc = "returned", !.written = TRUE]
    /\ UNCHANGED <<build, ctx, mvars, tvars>>

\* The body is cpp_unreachable: the program ends.
Unreachable ==
    /\ ev.pc = "entered"
    /\ wrapper_call(build, ev.wrapper) = "unreachable"
    /\ ev' = [ev EXCEPT !.pc = "aborted"]
    /\ UNCHANGED <<build, ctx, mvars, tvars>>

\* After a return the program goes on to its next call.
LeaveWrapper ==
    /\ ev.pc = "returned"
    /\ ev' = NoWrapperCall
    /\ UNCHANGED <<build, ctx, mvars, tvars>>

NextBackend ==
    \/ EnterWrapper
    \/ Delegate
    \/ Unreachable
    \/ LeaveWrapper

SpecBackend == InitBackend /\ [][NextBackend]_vars

\* The backend of a wrapper is compiled in: the macro of the overload is
\* defined, or the BLAS mode is on.
CompiledIn(bld, w) ==
    IF w \in BlasWrappers THEN bld.blas_mode ELSE w.guard \in bld.defined

\* C17: a call of a wrapper whose backend is not compiled in never returns
\* and never writes its output (it ends in the fatal state), and the
\* capability flag of every egblas overload is true exactly when a call of
\* the overload delegates to the library.
C17_UnreachableWithoutBackend ==
    /\ ev.pc # "idle" /\ ~CompiledIn(build, ev.wrapper) =>
          /\ ev.pc \in {"entered", "aborted"}
          /\ ~ev.written
    /\ ev.pc = "aborted" => ~CompiledIn(build, ev.wrapper)
    /\ \A w \in EgblasWrappers :
          has_flag(build, w) <=> wrapper_call(build, w) = "delegates"

\* sign on doubles was called in a build of egblas that has the float
\* overload only, and the program has ended without writing the output.
C17_Witness ==
    /\ ev.pc = "aborted"
    /\ ev.wrapper.fn = "sign"
    /\ ev.wrapper.type = "double"
    /\ build.egblas_mode
    /\ "EGBLAS_HAS_SSIGN" \in build.defined
    /\ ~ev.written

\* ----------------------------------------------------------- alias detection

\* The containers of a program, by identity.
MaxContainers == 2

Containers == 1..MaxContainers

\* The wrapper nodes over one operand.
Wrappers1 ==
    {"transpose_transformer", "dyn_convmtx_transformer", "dyn_convmtx2_transformer", "fast_matrix_view"}

Container(id) == [node |-> "container", id |-> id, subs |-> <<>>]

Wrapped(node, sub) == [node |-> node, id |-> 0, subs |-> <<sub>>]

MmMul(left, right) == [node |-> "mm_mul_transformer", id |-> 0, subs |-> <<left, right>>]

\* The expressions made of wrapper nodes over S.
Over(S) ==
    S \cup {Wrapped(n, s) : n \in Wrappers1, s \in S} \cup {MmMul(l, r) : l \in S, r \in S}

\* The expressions with at most two levels of wrapper nodes.
AliasExprs == Over(Over({Container(id) : id \in Containers}))

\* A container aliases the destination when it is the same container.
container_alias(id, d) == id = d

mm_mul_alias_bug(left, right) == left

\* mm_mul_transformer::alias, given the answers of its two sides
mm_mul_alias(left, right) == left \/ right

RECURSIVE alias(_, _)

\* alias(rhs) of a node: a wrapper over one operand asks its sub expression,
\* mm_mul asks both sides.
alias(e, d) ==
    IF e.node = "container" THEN container_alias(e.id, d)
    ELSE IF e.node = "mm_mul_transformer" THEN mm_mul_alias(alias(e.subs[1], d), alias(e.subs[2], d))
    ELSE alias(e.subs[1], d)

RECURSIVE operands(_)

\* The containers reachable through a node.
operands(e) ==
    IF e.node = "container" THEN {e.id}
    ELSE UNION {operands(e.subs[k]) : k \in 1..Len(e.subs)}

InitAlias ==
    /\ view \in AliasExprs
    /\ access = NoAccess
    /\ build = NoBuild
    /\ ctx = NoContext
    /\ ev = NoEvaluation
    /\ Rows = 1
    /\ Columns = 1
    /\ a = <<0>>
    /\ b = <<0>>
    /\ last = NoOp

\* view.alias(d) for a destination container d
Alias ==
    /\ \E d \in Containers :
          access' = Access("alias", d, 0, [value |-> alias(view, d), failed |-> FALSE])
    /\ UNCHANGED <<view, mvars, gvars>>

NextAlias == Alias

SpecAlias == InitAlias /\ [][NextAlias]_vars

\* C18: whenever a container reachable through the node is the destination,
\* alias(d) of the node answers true; for mm_mul this holds when the
\* destination is reachable through either side.
C18_AliasConservative ==
    access.op = "alias" =>
        /\ access.i \in operands(view) => access.value
        /\ view.node = "mm_mul_transformer" =>
              /\ access.i \in operands(view.subs[1]) => access.value
              /\ access.i \in operands(view.subs[2]) => access.value

\* The destination is reachable only through the right side of a product,
\* under a transposition, and alias answers true.
C18_Witness ==
    /\ access.op = "alias"
    /\ access.i = 2
    /\ view = MmMul(Container(1), Wrapped("transpose_transformer", Container(2)))
    /\ access.value

\* -------------------------------------------------------- mm_mul_transformer

\* check_mmul_sizes: the assertion on the interior dimensions
check_mmul_sizes(left, right) ==
    dim(left.rows, left.columns, 1) = dim(right.rows, right.columns, 0)

RECURSIVE mm_mul_loop(_, _, _, _, _, _)

\* for (k = 0; k < columns(left); k++) c += left(i, k) * right(k, j);
\* the operands' operator() assert their own bounds.
mm_mul_loop(left, right, i, j, k, c) ==
    IF k >= left.columns THEN [value |-> c, failed |-> FALSE]
    ELSE LET x == fast_matrix_call(left, i, k)
             y == fast_matrix_call(right, k, j)
         IN  IF x.failed \/ y.failed THEN [value |-> c, failed |-> TRUE]
             ELSE mm_mul_loop(left, right, i, j, k + 1, c + x.value * y.value)

mm_mul_call_bug(left, right, i, j) == mm_mul_loop(left, right, j, i, 0, 0)

\* mm_mul_transformer::operator()(i, j)
mm_mul_call(left, right, i, j) == mm_mul_loop(left, right, i, j, 0, 0)

\* etl_traits<mm_mul_transformer>::dim(v, d)
mm_mul_dim(left, right, d) ==
    IF d = 0 THEN dim(left.rows, left.columns, 0) ELSE dim(right.rows, right.columns, 1)

\* etl_traits<mm_mul_transformer>::size(v)
mm_mul_size(left, right) == mm_mul_dim(left, right, 0) * mm_mul_dim(left, right, 1)

InitMmMul ==
    /\ \E l \in Subs, r \in Subs : view = [left |-> l, right |-> r, built |-> "no"]
    /\ access = NoAccess
    /\ build = NoBuild
    /\ ctx = NoContext
    /\ ev = NoEvaluation
    /\ Rows = 1
    /\ Columns = 1
    /\ a = <<0>>
    /\ b = <<0>>
    /\ last = NoOp

\* mm_mul_transformer(left, right): a failed assertion ends the program.
MmMulConstruct ==
    /\ view.built = "no"
    /\ view' = [view EXCEPT !.built = IF check_mmul_sizes(view.left, view.right) THEN "yes" ELSE "failed"]
    /\ UNCHANGED <<access, mvars, gvars>>

MmMulCall ==
    /\ view.built = "yes"
    /\ \E i \in 0..(MaxDim - 1), j \in 0..(MaxDim - 1) :
          access' = Access("mm_mul_call", i, j, mm_mul_call(view.left, view.right, i, j))
    /\ UNCHANGED <<view, mvars, gvars>>

MmMulDim ==
    /\ view.built = "yes"
    /\ \E d \in {0, 1} :
          access' = Access("mm_mul_dim", d, 0, [value |-> mm_mul_dim(view.left, view.right, d), failed |-> FALSE])
    /\ UNCHANGED <<view, mvars, gvars>>

MmMulSize ==
    /\ view.built = "yes"
    /\ access' = Access("mm_mul_size", 0, 0, [value |-> mm_mul_size(view.left, view.right), failed |-> FALSE])
    /\ UNCHANGED <<view, mvars, gvars>>

\* index_to_2d(sub, i): the two indexes of the flat index i in the row-major
\* layout of sub
index_to_2d(m, i) == <<i \div dim(m.rows, m.columns, 1), i % dim(m.rows, m.columns, 1)>>

\* mm_mul_transformer::operator[](i) and read_flat(i)
mm_mul_at(left, right, i) ==
    LET ij == index_to_2d(left, i)
    IN  mm_mul_call(left, right, ij[1], ij[2])

MmMulAt ==
    /\ view.built = "yes"
    /\ \E i \in 0..(mm_mul_size(view.left, view.right) - 1) :
          access' = Access("mm_mul_at", i, 0, mm_mul_at(view.left, view.right, i))
    /\ UNCHANGED <<view, mvars, gvars>>

NextMmMul ==
    \/ MmMulConstruct
    \/ MmMulCall
    \/ MmMulDim
    \/ MmMulSize
    \/ MmMulAt

SpecMmMul == InitMmMul /\ [][NextMmMul]_vars

RECURSIVE Dot(_, _, _, _, _)

\* The sum of x(i, k) * y(k, j) over the k below n, on the row-major buffers.
Dot(x, y, i, j, n) ==
    IF n = 0 THEN 0
    ELSE Dot(x, y, i, j, n - 1)
             + x.data[i * x.columns + (n - 1) + 1] * y.data[(n - 1) * y.columns + j + 1]

\* C19: the construction fails exactly when the columns of a differ from
\* the rows of b; a product that was built over a of shape (M, K) and b of
\* shape (K, N) has extents M and N, size M * N, and at every i < M, j < N
\* the element sum over k < K of a(i, k) * b(k, j), read without a failed
\* bounds assertion.
C19_MmMul ==
    /\ view.built = "failed" => view.left.columns # view.right.rows
    /\ view.built = "yes" => view.left.columns = view.right.rows
    /\ access.op = "mm_mul_dim" =>
          access.value = (IF access.i = 0 THEN view.left.rows ELSE view.right.columns)
    /\ access.op = "mm_mul_size" => access.value = view.left.rows * view.right.columns
    /\ access.op = "mm_mul_call" /\ access.i < view.left.rows /\ access.j < view.right.columns =>
          /\ ~access.failed
          /\ access.value = Dot(view.left, view.right, access.i, access.j, view.left.columns)

\* Element (1, 2) of the product of a 2 x 3 matrix by a 3 x 3 matrix was read.
C19_Witness ==
    /\ access.op = "mm_mul_call"
    /\ view.left.rows = 2
    /\ view.left.columns = 3
    /\ view.right.columns = 3
    /\ access.i = 1
    /\ access.j = 2
    /\ ~access.failed
    /\ access.value # 0

\* ------------------------------------------- dyn_conv_4d_backward_expr traits

ConvExtents == {1, 2}

ConvStrides == {1, 2}

ConvPaddings == {0, 1}

\* The extent of a spatial dimension of the result, as it is written in the
\* traits and in check.
conv4_extent(s, n, k, p) == s * (n - 1) + k - 2 * p

\* The expressions: input a, kernel b, strides and paddings, for which the
\* spatial extents of the result are not negative (the arithmetic is on
\* size_t and is modelled where it does not wrap).
Conv4Inputs ==
    {e \in [da : [1..4 -> ConvExtents], db : [1..4 -> ConvExtents],
            s1 : ConvStrides, s2 : ConvStrides, p1 : ConvPaddings, p2 : ConvPaddings] :
        /\ conv4_extent(e.s1, e.da[3], e.db[3], e.p1) >= 0
        /\ conv4_extent(e.s2, e.da[4], e.db[4], e.p2) >= 0}

conv4_dim_bug(e, d) ==
    IF d = 0 THEN e.da[1]
    ELSE IF d = 1 THEN e.db[2]
    ELSE IF d = 2 THEN e.s2 * (e.da[3] - 1) + e.db[3] - 2 * e.p1
    ELSE e.s1 * (e.da[4] - 1) + e.db[4] - 2 * e.p2

\* etl_traits<dyn_conv_4d_backward_expr>::dim(e, d)
conv4_dim(e, d) ==
    IF d = 0 THEN e.da[1]
    ELSE IF d = 1 THEN e.db[2]
    ELSE IF d = 2 THEN e.s1 * (e.da[3] - 1) + e.db[3] - 2 * e.p1
    ELSE e.s2 * (e.da[4] - 1) + e.db[4] - 2 * e.p2

\* etl_traits<dyn_conv_4d_backward_expr>::size(e)
conv4_size(e) ==
    e.da[1] * e.db[2] * (e.s1 * (e.da[3] - 1) + e.db[3] - 2 * e.p1)
        * (e.s2 * (e.da[4] - 1) + e.db[4] - 2 * e.p2)

InitConv4 ==
    /\ view \in Conv4Inputs
    /\ access = NoAccess
    /\ build = NoBuild
    /\ ctx = NoContext
    /\ ev = NoEvaluation
    /\ Rows = 1
    /\ Columns = 1
    /\ a = <<0>>
    /\ b = <<0>>
    /\ last = NoOp

Conv4Dim ==
    /\ \E d \in 0..3 :
          access' = Access("conv4_dim", d, 0, [value |-> conv4_dim(view, d), failed |-> FALSE])
    /\ UNCHANGED <<view, mvars, gvars>>

Conv4Size ==
    /\ access' = Access("conv4_size", 0, 0, [value |-> conv4_size(view), failed |-> FALSE])
    /\ UNCHANGED <<view, mvars, gvars>>

\* check(a, b, c) for a destination c whose extents are those of the result
\* or one more.
Conv4Check ==
    /\ \E delta \in [1..4 -> {0, 1}] :
          LET dc == [k \in 1..4 |-> conv4_dim(view, k - 1) + delta[k]]
              e == [da |-> view.da, db |-> view.db, dc |-> dc,
                    s1 |-> view.s1, s2 |-> view.s2, p1 |-> view.p1, p2 |-> view.p2]
          IN  access' = Access("conv4_check", 0, 0, [value |-> dc, failed |-> ~conv4_check(e)])
    /\ UNCHANGED <<view, mvars, gvars>>

\* conv_4d_backward(a, b, c, s1, s2, p1, p2) and conv_4d_backward_flipped
\* called as their comment describes: a is [N, C, Hi, Wi], b is
\* [K, C, Hf, Wf] and c is [N, K, Hi - Hf + 1, Wi - Wf + 1]. The assignment
\* c = conv_4d_backward(a, b, ...) runs check(a, b, c) first.
Conv4CheckDocumented ==
    /\ view.da[2] = view.db[2]
    /\ view.da[3] >= view.db[3]
    /\ view.da[4] >= view.db[4]
    /\ LET dc == <<view.da[1], view.db[1], view.da[3] - view.db[3] + 1, view.da[4] - view.db[4] + 1>>
           e == [da |-> view.da, db |-> view.db, dc |-> dc,
                 s1 |-> view.s1, s2 |-> view.s2, p1 |-> view.p1, p2 |-> view.p2]
       IN  access' = Access("conv4_check_documented", 0, 0, [value |-> dc, failed |-> ~conv4_check(e)])
    /\ UNCHANGED <<view, mvars, gvars>>

NextConv4 ==
    \/ Conv4Dim
    \/ Conv4Size
    \/ Conv4Check
    \/ Conv4CheckDocumented

SpecConv4 == InitConv4 /\ [][NextConv4]_vars

\* The shape the claim gives to the expression.
Conv4Shape(e) ==
    <<e.da[1], e.db[2],
      e.s1 * (e.da[3] - 1) + e.db[3] - 2 * e.p1,
      e.s2 * (e.da[4] - 1) + e.db[4] - 2 * e.p2>>

\* C20: conv_4d_backward reports the extents dim(a, 0), dim(b, 1),
\* s1 * (dim(a, 2) - 1) + dim(b, 2) - 2 * p1 and
\* s2 * (dim(a, 3) - 1) + dim(b, 3) - 2 * p2, its size is their product, and
\* check passes exactly for a destination of these four extents when
\* dim(a, 1) = dim(b, 0).
C20_Conv4BackwardShape ==
    /\ access.op = "conv4_dim" => access.value = Conv4Shape(view)[access.i + 1]
    /\ access.op = "conv4_size" =>
          access.value = Conv4Shape(view)[1] * Conv4Shape(view)[2] * Conv4Shape(view)[3] * Conv4Shape(view)[4]
    /\ access.op = "conv4_check" =>
          (~access.failed <=> (access.value = Conv4Shape(view) /\ view.da[2] = view.db[1]))

\* The third extent of a result with strides 2 and 1 was asked: 2 * 1 + 2.
C20_Witness ==
    /\ access.op = "conv4_dim"
    /\ access.i = 2
    /\ view.s1 = 2
    /\ view.s2 = 1
    /\ view.da[3] = 2
    /\ view.db[3] = 2
    /\ view.p1 = 0
    /\ access.value = 4

\* C21: a destination of the documented shape [N, K, Hi - Hf + 1, Wi - Wf + 1]
\* passes the dimension check of the expression, so that the assignment goes
\* on to compute the result.
C21_DocumentedShapeAccepted ==
    access.op = "conv4_check_documented" => ~access.failed

\* C22: when a backend call that writes the container c has returned, after
\* any calls before it, the copy of c the call wrote is marked current (the
\* GPU copy after a cuDNN call, the CPU copy after a BLAS call) and the other
\* copy is marked stale; c is never left with both copies stale.
C22_LastWriterCurrent ==
    ev.pc = "done" =>
        /\ IF ev.call \in DeviceCalls
           THEN ev.c.gpu /\ ~ev.c.cpu
           ELSE ev.c.cpu /\ ~ev.c.gpu
        /\ ev.c.cpu \/ ev.c.gpu

\* C23: whatever the build, the selector and the sizes, the implementation
\* select_gevm_impl returns is one of the four the dispatch of assign_to
\* names and is available (BLAS only with cblas_enabled, CUBLAS only with
\* cublas_enabled, VEC only with vec_enabled and vectorizable operands), and
\* the dispatch never ends in cpp_unreachable or in a kernel that is not
\* compiled in.
C23_SelectionAvailable ==
    /\ Selected =>
          /\ ev.impl \in gemm_impl
          /\ ev.impl = "BLAS" => build.cblas_enabled
          /\ ev.impl = "CUBLAS" => build.cublas_enabled
          /\ ev.impl = "VEC" => (build.vec_enabled /\ ev.all_vectorizable)
    /\ ev.kind = "gevm" => \A k \in 1..Len(ev.trace) : ev.trace[k] # "unreachable"

\* VEC was forced on operands that cannot be vectorized, in a build with
\* BLAS, and the product was computed by BLAS.
C23_Witness ==
    /\ ctx.forced
    /\ ctx.impl = "VEC"
    /\ ~ev.all_vectorizable
    /\ build.cblas_enabled
    /\ ev.kind = "gevm"
    /\ ev.impl = "BLAS"
    /\ ev.pc = "done"
    /\ ev.result = "full"

\* C24: for an input of R x C elements with R divisible by C1 and C by C2,
\* max_pool_2d<C1, C2> fails no bounds assertion and leaves in every element
\* (j, k) of the (R / C1) x (C / C2) destination the maximum of the
\* C1 x C2 block of the input that starts at (j * C1, k * C2).
C24_PoolAnyShape ==
    (/\ access.op = "max_pool_2d"
     /\ view.rows % access.i = 0
     /\ view.columns % access.j = 0) =>
        /\ ~access.value.failed
        /\ \A j \in 0..(view.rows \div access.i - 1), k \in 0..(view.columns \div access.j - 1) :
              access.value.data[j * (view.columns \div access.j) + k + 1]
                  = Max({view.data[(j * access.i + jj) * view.columns + k * access.j + kk + 1] :
                            jj \in 0..(access.i - 1), kk \in 0..(access.j - 1)})

\* C25: for a matrix a of shape (R, C) and every i < R, j < C, the flat
\* element i * C + j and the element (i, j) of a flip are the same and are
\* a(i, C - 1 - j) for hflip, a(R - 1 - i, j) for vflip and
\* a(R - 1 - i, C - 1 - j) for fflip.
C25_FlipFlatAgrees ==
    access.op \in {"hflip", "vflip", "fflip"} =>
        LET r == IF access.op = "hflip" THEN access.i ELSE view.rows - 1 - access.i
            c == IF access.op = "vflip" THEN access.j ELSE view.columns - 1 - access.j
            expected == view.data[r * view.columns + c + 1]
        IN  /\ ~access.failed
            /\ access.value[2] = expected
            /\ access.value[1] = expected

\* C26: for a of shape (M, K) and b of shape (K, N), the flat element i of
\* the product, for every i < M * N, is read without a failed bounds
\* assertion and is the element (i / N, i % N) of the product.
C26_MmMulFlatAgrees ==
    access.op = "mm_mul_at" =>
        /\ ~access.failed
        /\ access.value = Dot(view.left, view.right, access.i \div view.right.columns,
                              access.i % view.right.columns, view.left.columns)

\* C27: for every input of i1 x i2 elements and every kernel of k1 x k2,
\* convmtx2_direct_t completes inside its destination m of
\* (k1 * k2) x ((i1 + k1 - 1) * (i2 + k2 - 1)) elements, and the row-major
\* element (j, i) of m is the element (i, j) of the lazy
\* dyn_convmtx2_transformer over the same input and kernel.
C27_Convmtx2DirectTransposed ==
    access.op = "convmtx2_direct_t" =>
        LET c_height == (view.rows + access.i - 1) * (view.columns + access.j - 1)
        IN  /\ ~access.failed
            /\ \A j \in 0..(access.i * access.j - 1), i \in 0..(c_height - 1) :
                  /\ ~convmtx2_call(view, access.i, access.j, FALSE, i, j).failed
                  /\ access.value[j * c_height + i + 1]
                        = convmtx2_call(view, access.i, access.j, FALSE, i, j).value

\* C28: for a row-major input of i1 x i2 elements and a kernel with
\* 1 <= k1 <= i1 and 1 <= k2 <= i2, either overload of im2col_direct stays
\* inside the input and the destination, writes every element of the
\* destination exactly once, sets m(b_j * k1 + b_i, b) to
\* sub(b % (i1 - k1 + 1) + b_i, b / (i1 - k1 + 1) + b_j), and leaves the same
\* matrix as the other overload.
C28_Im2colOverloadsAgree ==
    access.op \in {"im2col_direct", "im2col_direct_dma"} =>
        LET k1 == access.i
            k2 == access.j
            h == view.rows - k1 + 1
            m_width == h * (view.columns - k2 + 1)
            mm == [p \in 1..(k1 * k2 * m_width) |-> 0]
        IN  /\ ~access.failed
            /\ \A p \in 1..(k1 * k2 * m_width) : access.value.writes[p] = 1
            /\ \A bb \in 0..(m_width - 1), b_i \in 0..(k1 - 1), b_j \in 0..(k2 - 1) :
                  access.value.data[(b_j * k1 + b_i) * m_width + bb + 1]
                     = fast_matrix_call(view, (bb % h) + b_i, (bb \div h) + b_j).value
            /\ access.value.data = im2col_direct(mm, view, k1, k2).data
            /\ access.value.data = im2col_direct_dma(mm, view, k1, k2).data

\* The direct-memory overload has gathered 2 x 2 patches of a 3 x 3 input.
C28_Witness ==
    /\ access.op = "im2col_direct_dma"
    /\ access.i = 2
    /\ access.j = 2
    /\ view.rows = 3
    /\ view.columns = 3
    /\ Len(access.value.data) = 16

\* C29: the size p_max_pool_p_transformer<T, C1, C2> reports is the product
\* of the extents it reports (the last extent of the operand divided by C2,
\* the one before it divided by C1), also when the operand's extents are not
\* multiples of C1 and C2.
C29_PoolPSizeIsProduct ==
    access.op = "p_max_pool_p_traits" =>
        /\ access.value.dims = <<view.rows \div access.i, view.columns \div access.j>>
        /\ access.value.size = access.value.dims[1] * access.value.dims[2]

====
